---------------------------- MODULE Spec2Model ----------------------------
(***************************************************************************)
(* A model of chroma-core: the colour-pattern detector of ChromaCore.h     *)
(* (vision::HueRangeSet, vision::detail, vision::ColorPatternFinder) and   *)
(* the C runtime boundary of ChromaCore.cpp (the process-wide active       *)
(* configuration, its mutex, the configuration marshalling and the        *)
(* Locate entry points).                                                   *)
(*                                                                         *)
(* Conventions.                                                            *)
(*  - A C++ float is a record [nan, v]: v is the value in thousandths and  *)
(*    nan marks an IEEE NaN, for which every ordered comparison is false.  *)
(*  - The results of the OpenCV primitives that measure a contour          *)
(*    (contourArea, arcLength, minEnclosingCircle, boundingRect) are       *)
(*    inputs drawn from bounded sets; the arithmetic the repository does   *)
(*    on them is computed as the code computes it, in thousandths.         *)
(*  - A frame is a one-row image: a sequence of HSV pixels.                *)
(***************************************************************************)
EXTENDS Integers, Sequences, FiniteSets, TLC

VARIABLES
    g_activeConfig,   \* ChromaCore.cpp: the process-wide active configuration
    g_cfgMutex,       \* ChromaCore.cpp: its mutex; 0 when free, else the holder
    committed,        \* history: the last configuration completely assigned
    threads,          \* per calling thread: the call in progress and its locals
    val,              \* a ValidateConfig call: its argument and its result
    mask,             \* a HueRangeSet::BuildMask call on one pixel
    find,             \* a ColorPatternFinder::Find call
    call              \* a call of one routine taken alone: its arguments and outcome

vars == <<g_activeConfig, g_cfgMutex, committed, threads, val, mask, find, call>>

---------------------------------------------------------------------------
(* Status codes, ChromaApi.h *)

CHROMA_STATUS_OK == 0
CHROMA_STATUS_INVALID_ARGUMENT == 1
CHROMA_STATUS_CONFIG_ERROR == 2
CHROMA_STATUS_RUNTIME_ERROR == 3
CHROMA_STATUS_BUFFER_TOO_SMALL == 4

CHROMA_MAX_HUE_RANGES == 8

\* sizeof(ChromaConfigV1): 55 four-byte members
SizeofChromaConfigV1 == 220

---------------------------------------------------------------------------
(* Floats *)

F(v) == [nan |-> FALSE, v |-> v]
NaN == [nan |-> TRUE, v |-> 0]

FLt(a, b) == ~a.nan /\ ~b.nan /\ a.v < b.v
FGt(a, b) == ~a.nan /\ ~b.nan /\ a.v > b.v
FLe(a, b) == ~a.nan /\ ~b.nan /\ a.v <= b.v
FGe(a, b) == ~a.nan /\ ~b.nan /\ a.v >= b.v

Min(a, b) == IF a < b THEN a ELSE b
Max(a, b) == IF a < b THEN b ELSE a

\* the sequence f(1), ..., f(n): the elements of a cv::Mat row
RECURSIVE SeqOf(_, _)
SeqOf(f(_), n) == IF n <= 0 THEN <<>> ELSE Append(SeqOf(f, n - 1), f(n))

\* std::clamp(v, lo, hi)
Clamp(v, lo, hi) == IF v < lo THEN lo ELSE IF hi < v THEN hi ELSE v

---------------------------------------------------------------------------
(* vision::HueRange, vision::ChannelRange, vision::HueRangeSet *)

HueRange(lo, hi) == [minHue |-> lo, maxHue |-> hi]
ChannelRange(lo, hi) == [minValue |-> lo, maxValue |-> hi]

ClampHue(h) == IF h < 0 THEN 0 ELSE IF h > 179 THEN 179 ELSE h

\* HueRangeSet::Add
Add(ranges, range) ==
    Append(ranges, HueRange(ClampHue(range.minHue), ClampHue(range.maxHue)))

\* HueRangeSet(ranges): Add of each, in order
RECURSIVE HueRangeSet(_)
HueRangeSet(ranges) ==
    IF ranges = <<>> THEN <<>>
    ELSE Add(HueRangeSet(SubSeq(ranges, 1, Len(ranges) - 1)), ranges[Len(ranges)])

\* HueRangeSet::Empty
Empty(ranges) == Len(ranges) = 0

\* an HSV pixel of a CV_8UC3 image
Pixel(h, s, v) == [h |-> h, s |-> s, v |-> v]

\* cv::inRange on one pixel: every channel within its inclusive bounds
InRange(px, lo, hi) ==
    /\ lo.h <= px.h /\ px.h <= hi.h
    /\ lo.s <= px.s /\ px.s <= hi.s
    /\ lo.v <= px.v /\ px.v <= hi.v

\* a slip in the wrap-around branch: the two halves intersected, not united
MaskPartIntersected(r, px, satMin, satMax, valMin, valMax) ==
    IF r.minHue <= r.maxHue
    THEN InRange(px, Pixel(r.minHue, satMin, valMin), Pixel(r.maxHue, satMax, valMax))
    ELSE /\ InRange(px, Pixel(0, satMin, valMin), Pixel(r.maxHue, satMax, valMax))
         /\ InRange(px, Pixel(r.minHue, satMin, valMin), Pixel(179, satMax, valMax))

\* HueRangeSet::BuildMask, the body of the loop over ranges_: "part" at one pixel
MaskPart(r, px, satMin, satMax, valMin, valMax) ==
    IF r.minHue <= r.maxHue
    THEN InRange(px, Pixel(r.minHue, satMin, valMin), Pixel(r.maxHue, satMax, valMax))
    ELSE \/ InRange(px, Pixel(0, satMin, valMin), Pixel(r.maxHue, satMax, valMax))
         \/ InRange(px, Pixel(r.minHue, satMin, valMin), Pixel(179, satMax, valMax))

\* HueRangeSet::BuildMask at one pixel: 255 (foreground) or 0
BuildMaskPixel(ranges, px, satMin, satMax, valMin, valMax) ==
    IF Len(ranges) = 0 THEN 0
    ELSE LET sa == Clamp(satMin, 0, 255)
             sb == Clamp(satMax, 0, 255)
             va == Clamp(valMin, 0, 255)
             vb == Clamp(valMax, 0, 255)
             sLo == IF sa > sb THEN sb ELSE sa
             sHi == IF sa > sb THEN sa ELSE sb
             vLo == IF va > vb THEN vb ELSE va
             vHi == IF va > vb THEN va ELSE vb
         IN  IF \E i \in 1..Len(ranges) : MaskPart(ranges[i], px, sLo, sHi, vLo, vHi)
             THEN 255 ELSE 0

\* HueRangeSet::BuildMask on a frame (a sequence of pixels)
BuildMaskOf(ranges, hsv, satMin, satMax, valMin, valMax) ==
    LET at(i) == BuildMaskPixel(ranges, hsv[i], satMin, satMax, valMin, valMax)
    IN  SeqOf(at, Len(hsv))

---------------------------------------------------------------------------
(* vision::ColorPatternConfig and its default member initialisers *)

\* vision::ColorPatternConfig cfg;  (what a default-constructed local holds)
DefaultConstructedConfig ==
    [ centerColor |-> [ hues |-> <<>>,
                        satRange |-> ChannelRange(0, 255),
                        valRange |-> ChannelRange(0, 255) ],
      centerMorph |-> [ openIterations |-> 0, closeIterations |-> 0,
                        dilateIterations |-> 0 ],
      shape |-> [ minArea |-> 10, maxArea |-> 5000,
                  minCircularity |-> F(650), minFillRatio |-> F(400) ],
      context |-> [ enabled |-> FALSE,
                    innerRadiusPercent |-> 110,
                    outerRadiusPercent |-> 220,
                    supportColor |-> [ hues |-> <<>>,
                                       satRange |-> ChannelRange(0, 255),
                                       valRange |-> ChannelRange(0, 255) ],
                    excludeHues |-> <<>>,
                    excludeSatRange |-> ChannelRange(0, 255),
                    excludeValRange |-> ChannelRange(0, 255),
                    minSupportRatio |-> F(200) ],
      debug |-> [ drawRejected |-> FALSE ] ]

\* BuildDefaultPatternConfig
BuildDefaultPatternConfig ==
    [ centerColor |-> [ hues |-> HueRangeSet(<<HueRange(16, 32)>>),
                        satRange |-> ChannelRange(50, 125),
                        valRange |-> ChannelRange(85, 255) ],
      centerMorph |-> [ openIterations |-> 5, closeIterations |-> 3,
                        dilateIterations |-> 1 ],
      shape |-> [ minArea |-> 20, maxArea |-> 800,
                  minCircularity |-> F(750), minFillRatio |-> F(680) ],
      context |-> [ enabled |-> TRUE,
                    innerRadiusPercent |-> 105,
                    outerRadiusPercent |-> 225,
                    supportColor |-> [ hues |-> HueRangeSet(<<HueRange(0, 179)>>),
                                       satRange |-> ChannelRange(0, 255),
                                       valRange |-> ChannelRange(120, 255) ],
                    excludeHues |-> HueRangeSet(<<HueRange(52, 68), HueRange(24, 48)>>),
                    excludeSatRange |-> ChannelRange(0, 255),
                    excludeValRange |-> ChannelRange(120, 255),
                    minSupportRatio |-> F(420) ],
      debug |-> [ drawRejected |-> FALSE ] ]

---------------------------------------------------------------------------
(* ColorPatternFinder::ValidateConfig *)

ValidOk == [ok |-> TRUE, error |-> ""]
SetError(msg) == [ok |-> FALSE, error |-> msg]

\* the validateRange lambda
ValidateRange(range, name) ==
    IF range.minValue < 0 \/ range.minValue > 255
         \/ range.maxValue < 0 \/ range.maxValue > 255
    THEN SetError(name \o " must be within [0,255].")
    ELSE IF range.minValue > range.maxValue
    THEN SetError(name \o " must satisfy minValue <= maxValue.")
    ELSE ValidOk

\* the condition of the ring radius check
RingRadiiRejected(cfg) ==
    \/ cfg.context.innerRadiusPercent < 1
    \/ cfg.context.outerRadiusPercent <= cfg.context.innerRadiusPercent

\* the if (cfg.context.enabled) block
ValidateContext(cfg) ==
    IF RingRadiiRejected(cfg)
    THEN SetError("context ring radius percents must satisfy: 1 <= inner < outer.")
    ELSE IF FLt(cfg.context.minSupportRatio, F(0))
              \/ FGt(cfg.context.minSupportRatio, F(1000))
    THEN SetError("context.minSupportRatio must be in [0,1].")
    ELSE IF ~ValidateRange(cfg.context.supportColor.satRange,
                           "context.supportColor.satRange").ok
    THEN ValidateRange(cfg.context.supportColor.satRange,
                       "context.supportColor.satRange")
    ELSE IF ~ValidateRange(cfg.context.supportColor.valRange,
                           "context.supportColor.valRange").ok
    THEN ValidateRange(cfg.context.supportColor.valRange,
                       "context.supportColor.valRange")
    ELSE IF ~ValidateRange(cfg.context.excludeSatRange, "context.excludeSatRange").ok
    THEN ValidateRange(cfg.context.excludeSatRange, "context.excludeSatRange")
    ELSE IF ~ValidateRange(cfg.context.excludeValRange, "context.excludeValRange").ok
    THEN ValidateRange(cfg.context.excludeValRange, "context.excludeValRange")
    ELSE ValidOk

\* a slip in the comparison: maxArea checked against 1, not against minArea
MaxAreaRejectedAgainstOne(cfg) == cfg.shape.maxArea < 1

\* the condition of the shape.maxArea check
MaxAreaRejected(cfg) == cfg.shape.maxArea < cfg.shape.minArea

ValidateConfig(cfg) ==
    IF Empty(cfg.centerColor.hues)
    THEN SetError("centerColor.hues is empty.")
    ELSE IF ~ValidateRange(cfg.centerColor.satRange, "centerColor.satRange").ok
    THEN ValidateRange(cfg.centerColor.satRange, "centerColor.satRange")
    ELSE IF ~ValidateRange(cfg.centerColor.valRange, "centerColor.valRange").ok
    THEN ValidateRange(cfg.centerColor.valRange, "centerColor.valRange")
    ELSE IF cfg.shape.minArea < 1
    THEN SetError("shape.minArea must be >= 1.")
    ELSE IF MaxAreaRejected(cfg)
    THEN SetError("shape.maxArea must be >= shape.minArea.")
    ELSE IF FLt(cfg.shape.minCircularity, F(0)) \/ FGt(cfg.shape.minCircularity, F(1000))
    THEN SetError("shape.minCircularity must be in [0,1].")
    ELSE IF FLt(cfg.shape.minFillRatio, F(0)) \/ FGt(cfg.shape.minFillRatio, F(1000))
    THEN SetError("shape.minFillRatio must be in [0,1].")
    ELSE IF cfg.context.enabled
    THEN ValidateContext(cfg)
    ELSE ValidOk

---------------------------------------------------------------------------
(* vision::detail *)

\* CV_PI in thousandths
PiMilli == 3142

\* detail::SafeDiv, the quotient in thousandths (num and den on one scale)
SafeDiv(num, den) == IF den <= 0 THEN 0 ELSE (num * 1000) \div den

\* a slip: the value returned unclamped
Clamp01Identity(v) == v

\* detail::Clamp01 on a value in thousandths
Clamp01(v) == IF v < 0 THEN 0 ELSE IF v > 1000 THEN 1000 ELSE v

\* std::lround of num/den for num >= 0, den > 0 (halves away from zero)
LRound(num, den) == (2 * num + den) \div (2 * den)

\* detail::BuildMask
BuildMask(hsv, cfg) ==
    BuildMaskOf(cfg.hues, hsv, cfg.satRange.minValue, cfg.satRange.maxValue,
                cfg.valRange.minValue, cfg.valRange.maxValue)

\* detail::BuildExcludeMask
BuildExcludeMask(hsv, ranges, satRange, valRange) ==
    BuildMaskOf(ranges, hsv, satRange.minValue, satRange.maxValue,
                valRange.minValue, valRange.maxValue)

\* a slip: a dilation that takes the pixels outside the image as foreground
DilateFromBorder(m) ==
    LET at(i) == IF \E j \in {i - 1, i, i + 1} : j \notin 1..Len(m) \/ m[j] # 0
                 THEN 255 ELSE 0
    IN  SeqOf(at, Len(m))

\* cv::erode and cv::dilate of a one-row mask by the 3x3 ellipse (its middle
\* row is 1 1 1); pixels outside the image do not take part
Erode(m) ==
    LET at(i) == IF \A j \in {i - 1, i, i + 1} : (j \in 1..Len(m)) => m[j] # 0
                 THEN 255 ELSE 0
    IN  SeqOf(at, Len(m))
Dilate(m) ==
    LET at(i) == IF \E j \in {i - 1, i, i + 1} : j \in 1..Len(m) /\ m[j] # 0
                 THEN 255 ELSE 0
    IN  SeqOf(at, Len(m))

RECURSIVE Iterate(_, _, _)
Iterate(op(_), n, m) == IF n <= 0 THEN m ELSE Iterate(op, n - 1, op(m))

\* cv::morphologyEx MORPH_OPEN / MORPH_CLOSE with iterations n
MorphOpen(m, n) == Iterate(Dilate, n, Iterate(Erode, n, m))
MorphClose(m, n) == Iterate(Erode, n, Iterate(Dilate, n, m))

\* detail::ApplyMorphology
ApplyMorphology(m, cfg) ==
    IF Len(m) = 0 THEN m
    ELSE LET opened == IF cfg.openIterations > 0
                       THEN MorphOpen(m, cfg.openIterations) ELSE m
             closed == IF cfg.closeIterations > 0
                       THEN MorphClose(opened, cfg.closeIterations) ELSE opened
         IN  IF cfg.dilateIterations > 0
             THEN Iterate(Dilate, cfg.dilateIterations, closed) ELSE closed

\* detail::ComputeCircularity from contourArea and arcLength, all three in
\* thousandths: 4 pi area / perimeter^2.  (The squared perimeter is taken in
\* thousandths before the division, to stay within TLC's integers: the
\* perimeters drawn are at least 0.032 and at most 46 pixels.)
ComputeCircularity(area, perimeter) ==
    IF area <= 0 \/ perimeter <= 0 THEN 0
    ELSE (4 * PiMilli * area) \div ((perimeter * perimeter) \div 1000)

\* cv::countNonZero
CountNonZero(m) == Cardinality({ i \in 1..Len(m) : m[i] # 0 })

\* cv::bitwise_and, cv::bitwise_xor on masks of 0 / 255
BitwiseAnd(a, b) ==
    LET at(i) == IF a[i] # 0 /\ b[i] # 0 THEN 255 ELSE 0
    IN  SeqOf(at, Len(a))
BitwiseXor(a, b) ==
    LET at(i) == IF (a[i] # 0) # (b[i] # 0) THEN 255 ELSE 0
    IN  SeqOf(at, Len(a))

\* cv::findContours(RETR_EXTERNAL) on a one-row mask: one contour for each
\* maximal run of foreground pixels, as [lo, hi]
Runs(m) ==
    LET starts == { i \in 1..Len(m) : m[i] # 0 /\ (i = 1 \/ m[i - 1] = 0) }
        EndOf(a) == CHOOSE b \in a..Len(m) :
                       /\ \A k \in a..b : m[k] # 0
                       /\ (b = Len(m) \/ m[b + 1] = 0)
        RECURSIVE Build(_)
        Build(from) ==
            IF \A a \in starts : a < from THEN <<>>
            ELSE LET a == CHOOSE x \in starts :
                             x >= from /\ \A y \in starts : y >= from => x <= y
                 IN  <<[lo |-> a, hi |-> EndOf(a)]>> \o Build(EndOf(a) + 1)
    IN  Build(1)

---------------------------------------------------------------------------
(* ColorPatternFinder::Find, the per-candidate metrics *)

Abs(x) == IF x < 0 THEN 0 - x ELSE x

\* std::numeric_limits<int32_t>::max() and min(): the range of int
Int32Max == 2147483647
Int32Min == 0 - Int32Max - 1

\* a + b and a * b (b >= 0) in the 32 bits of an int, wrapping around
AddWrap(a, b) ==
    IF a > 0 /\ b > 0 /\ a > Int32Max - b
    THEN (a - Int32Max - 1) + (b - Int32Max - 1)
    ELSE IF a < 0 /\ b < 0 /\ a < Int32Min - b
    THEN (a + Int32Max + 1) + (b + Int32Max + 1)
    ELSE a + b

RECURSIVE MulWrap(_, _)
MulWrap(a, b) ==
    IF b = 0 THEN 0
    ELSE LET half == MulWrap(a, b \div 2)
         IN  AddWrap(AddWrap(half, half), IF b % 2 = 1 THEN a ELSE 0)

\* std::lround(radius * (percent / 100.0F)) for a radius in thousandths of a
\* pixel: whether the value is in the range of int, the value if it is, and
\* its low 32 bits.  The product is computed in two parts, percent =
\* 100000 * whole + rest, to stay within the model checker's integers; the
\* second part keeps a tenth of a pixel of the radius.
ScaledRadius(radius, percent) ==
    IF percent <= Int32Max \div Max(1, radius)
    THEN [ fits |-> TRUE, v |-> LRound(radius * percent, 100000),
           low |-> LRound(radius * percent, 100000) ]
    ELSE LET whole == percent \div 100000
             rest == percent % 100000
             frac == LRound((radius \div 100) * (rest \div 100), 10)
             fits == whole <= (Int32Max - frac) \div radius
         IN  [ fits |-> fits,
               v |-> IF fits THEN radius * whole + frac ELSE 0,
               low |-> AddWrap(MulWrap(radius, whole), frac) ]

\* the builds: long has 64 bits (Linux, macOS) or 32 bits (Windows)
Builds == { "LP64", "LLP64" }

\* static_cast<int>(std::lround(...)): a value outside the range of int keeps
\* its low 32 bits where long has 64 bits; where long has 32 bits lround
\* itself cannot return it and gives the x86 indefinite value, LONG_MIN
ToInt(scaled, build) ==
    IF scaled.fits THEN scaled.v
    ELSE IF build = "LP64" THEN scaled.low
    ELSE Int32Min

\* const int inner, const int outer of a candidate of enclosing-circle radius
\* `radius`
RingRadii(cfg, radius, build) ==
    LET inner == Max(1, ToInt(ScaledRadius(radius, cfg.context.innerRadiusPercent), build))
    IN  [ inner |-> inner,
          outer |-> Max(AddWrap(inner, 1),
                        ToInt(ScaledRadius(radius, cfg.context.outerRadiusPercent), build)) ]

\* the annulus radii of a candidate where every scaled radius is in the
\* range of int, as in all runs of Find below: the build makes no difference
RingInner(cfg, radius) == RingRadii(cfg, radius, "LP64").inner
RingOuter(cfg, radius) == RingRadii(cfg, radius, "LP64").outer

\* ringMask: cv::circle(outer, 255, FILLED) then cv::circle(inner, 0, FILLED)
\* on a zero mask of n pixels
RingMask(n, center, inner, outer) ==
    LET at(p) == IF Abs(p - center) <= outer /\ ~(Abs(p - center) <= inner)
                 THEN 255 ELSE 0
    IN  SeqOf(at, n)

\* a slip: the exclude mask ignored
ValidRingMaskWithExcluded(ringMask, excludeMask) == ringMask

\* validRingMask: the ring without its pixels of the exclude mask
ValidRingMask(ringMask, excludeMask) ==
    IF Len(excludeMask) # 0
    THEN BitwiseXor(ringMask, BitwiseAnd(ringMask, excludeMask))
    ELSE ringMask

\* the branch if (config_.context.enabled)
EnabledContextMetrics(cfg, n, center, radius, supportMask, excludeMask) ==
    LET ringMask == RingMask(n, center, RingInner(cfg, radius), RingOuter(cfg, radius))
        validRingMask == ValidRingMask(ringMask, excludeMask)
        supportInRing == BitwiseAnd(supportMask, validRingMask)
        validPx == CountNonZero(validRingMask)
        supportPx == CountNonZero(supportInRing)
        ratio == Clamp01(SafeDiv(supportPx, validPx))
    IN  [ ringSupportRatio |-> ratio,
          passesContext |-> FGe(F(ratio), cfg.context.minSupportRatio) ]

\* a slip: the members left at their initial values
DisabledContextMetricsUnset == [ringSupportRatio |-> 0, passesContext |-> FALSE]

\* the else branch
DisabledContextMetrics == [ringSupportRatio |-> 1000, passesContext |-> TRUE]

\* a slip: the score taken from the shape alone
ScoreOfShapeOnly(cfg, circularity, centerFillRatio, ringSupportRatio) ==
    Clamp01((circularity * 550 + centerFillRatio * 450) \div 1000)

\* m.score
Score(cfg, circularity, centerFillRatio, ringSupportRatio) ==
    LET shapeScore == (circularity * 550 + centerFillRatio * 450) \div 1000
    IN  IF cfg.context.enabled
        THEN Clamp01((shapeScore * 600 + ringSupportRatio * 400) \div 1000)
        ELSE Clamp01(shapeScore)

\* a slip: the context flag left out of the conjunction
AcceptedWithoutContext(m) ==
    m.passesArea /\ m.passesCircularity /\ m.passesCenterFill

\* m.accepted
Accepted(m) ==
    m.passesArea /\ m.passesCircularity /\ m.passesCenterFill /\ m.passesContext

\* the body of the loop over contours, for a contour of positive area: the
\* detection pushed to result.detections
Candidate(cfg, contour, n, supportMask, excludeMask) ==
    LET area == contour.area
        radius == contour.radius
        \* lround of the enclosing circle's centre, the middle of the run
        center == LRound(contour.lo + contour.hi, 2)
        circularity == Clamp01(ComputeCircularity(area, contour.perimeter))
        circleArea == Max(1000, (PiMilli * ((radius * radius) \div 1000)) \div 1000)
        centerFillRatio == Clamp01(SafeDiv(area, circleArea))
        ctx == IF cfg.context.enabled
               THEN EnabledContextMetrics(cfg, n, center, radius, supportMask, excludeMask)
               ELSE DisabledContextMetrics
        m0 == [ areaPx |-> area,
                circularity |-> circularity,
                centerFillRatio |-> centerFillRatio,
                ringSupportRatio |-> ctx.ringSupportRatio,
                score |-> Score(cfg, circularity, centerFillRatio, ctx.ringSupportRatio),
                passesArea |-> (area >= cfg.shape.minArea * 1000
                                  /\ area <= cfg.shape.maxArea * 1000),
                passesCircularity |-> FGe(F(circularity), cfg.shape.minCircularity),
                passesCenterFill |-> FGe(F(centerFillRatio), cfg.shape.minFillRatio),
                passesContext |-> ctx.passesContext ]
    IN  [ boxPx |-> [x |-> contour.lo, width |-> contour.hi - contour.lo + 1],
          centerPx |-> center,
          radiusPx |-> radius,
          metrics |-> m0 @@ [accepted |-> Accepted(m0)] ]

\* a slip: the order by score alone
DetectionBeforeByScoreOnly(a, b) == a.metrics.score > b.metrics.score

\* the comparator given to std::sort
DetectionBefore(a, b) ==
    IF a.metrics.accepted # b.metrics.accepted
    THEN a.metrics.accepted /\ ~b.metrics.accepted
    ELSE a.metrics.score > b.metrics.score

\* the results std::sort may leave: the permutations of dets in which no
\* element is ordered before one that precedes it
Orderings(n) ==
    { p \in [1..n -> 1..n] : \A i, j \in 1..n : i # j => p[i] # p[j] }
SortedResults(dets) ==
    { [ i \in 1..Len(dets) |-> dets[p[i]] ] : p \in
        { q \in Orderings(Len(dets)) :
            \A i, j \in 1..Len(dets) :
                i < j => ~DetectionBefore(dets[q[j]], dets[q[i]]) } }

\* a slip: the lists filled from every detection
AcceptedDetectionsUnfiltered(dets) == dets

\* the loop over the sorted detections: the accepted ones, in order
AcceptedDetections(dets) == SelectSeq(dets, LAMBDA d : d.metrics.accepted)

\* a slip: the score of the detection visited last
LastScore(dets) ==
    IF Len(dets) = 0 THEN 0 ELSE dets[Len(dets)].metrics.score

RECURSIVE MaxScore(_)
MaxScore(dets) ==
    IF Len(dets) = 0 THEN 0
    ELSE Max(MaxScore(Tail(dets)), Head(dets).metrics.score)

\* a slip: the ratio taken over the detections kept, not the raw contours
AcceptedRatioOverDetections(result) ==
    SafeDiv(result.acceptedCount, Max(1, Len(result.detections)))

\* result.acceptedRatio
AcceptedRatio(result) ==
    SafeDiv(result.acceptedCount, Max(1, result.rawCandidateCount))

\* ColorPatternRunResult result;
EmptyRunResult ==
    [ detections |-> <<>>, acceptedCentersPx |-> <<>>, acceptedBoxesPx |-> <<>>,
      rawCandidateCount |-> 0, acceptedCount |-> 0, acceptedRatio |-> 0,
      sceneMaskCoverage |-> 0, score |-> 0 ]

---------------------------------------------------------------------------
(* Idle values of the per-call variables *)

ValIdle == [pc |-> "idle", cfg |-> DefaultConstructedConfig, result |-> ValidOk]

FindIdle ==
    [ pc |-> "idle", cfg |-> DefaultConstructedConfig, hsv |-> <<>>,
      centerMask |-> <<>>, supportMask |-> <<>>, excludeMask |-> <<>>,
      contours |-> <<>>, i |-> 0, result |-> EmptyRunResult ]

CallIdle == [pc |-> "idle"]

MaskIdle ==
    [ pc |-> "idle", ranges |-> <<>>, px |-> Pixel(0, 0, 0),
      sat |-> ChannelRange(0, 255), val |-> ChannelRange(0, 255), out |-> 0 ]

---------------------------------------------------------------------------
(* SpecValidate: ValidateConfig applied to configurations drawn from the    *)
(* product of per-field value sets (each rule can pass or fail, alone or   *)
(* together with the others).                                              *)

HueSetInputs == { <<>>, HueRangeSet(<<HueRange(16, 32)>>) }
CenterSatInputs == { ChannelRange(50, 125), ChannelRange(-1, 125), ChannelRange(125, 50) }
CenterValInputs == { ChannelRange(85, 255), ChannelRange(85, 256) }
AreaInputs == { <<20, 800>>, <<20, 10>>, <<0, 800>>, <<0, -5>> }
CircularityInputs == { F(750), F(-100), F(1001), NaN }
FillInputs == { F(680), F(1500) }
RadiusInputs == { <<105, 225>>, <<0, 225>>, <<105, 105>>, <<1, 2>> }
SupportRatioInputs == { F(420), F(-1), NaN }
\* support sat, support val, exclude sat, exclude val
ContextRangeInputs ==
    { <<ChannelRange(0, 255), ChannelRange(120, 255), ChannelRange(0, 255), ChannelRange(120, 255)>>,
      <<ChannelRange(0, 300), ChannelRange(120, 255), ChannelRange(0, 255), ChannelRange(120, 255)>>,
      <<ChannelRange(0, 255), ChannelRange(255, 120), ChannelRange(0, 255), ChannelRange(120, 255)>>,
      <<ChannelRange(0, 255), ChannelRange(120, 255), ChannelRange(-3, 255), ChannelRange(120, 255)>>,
      <<ChannelRange(0, 255), ChannelRange(120, 256), ChannelRange(9, 3), ChannelRange(200, 100)>>,
      <<ChannelRange(0, 255), ChannelRange(120, 255), ChannelRange(0, 255), ChannelRange(200, 100)>> }

ValidateInputs ==
    { [ centerColor |-> [ hues |-> h, satRange |-> cs, valRange |-> cv ],
        centerMorph |-> BuildDefaultPatternConfig.centerMorph,
        shape |-> [ minArea |-> a[1], maxArea |-> a[2],
                    minCircularity |-> mc, minFillRatio |-> mf ],
        context |-> [ enabled |-> en,
                      innerRadiusPercent |-> r[1],
                      outerRadiusPercent |-> r[2],
                      supportColor |-> [ hues |-> HueRangeSet(<<HueRange(0, 179)>>),
                                         satRange |-> cr[1],
                                         valRange |-> cr[2] ],
                      excludeHues |-> <<>>,
                      excludeSatRange |-> cr[3],
                      excludeValRange |-> cr[4],
                      minSupportRatio |-> sr ],
        debug |-> [ drawRejected |-> FALSE ] ] :
      h \in HueSetInputs, cs \in CenterSatInputs, cv \in CenterValInputs,
      a \in AreaInputs, mc \in CircularityInputs, mf \in FillInputs,
      en \in BOOLEAN, r \in RadiusInputs, sr \in SupportRatioInputs,
      cr \in ContextRangeInputs }

\* a caller runs ValidateConfig(cfg, &error)
ValidateCall ==
    /\ val.pc = "call"
    /\ val' = [val EXCEPT !.pc = "done", !.result = ValidateConfig(val.cfg)]
    /\ UNCHANGED <<g_activeConfig, g_cfgMutex, committed, threads, mask, find, call>>

InitValidate ==
    /\ g_activeConfig = BuildDefaultPatternConfig
    /\ g_cfgMutex = 0
    /\ committed = BuildDefaultPatternConfig
    /\ call = CallIdle
    /\ threads = <<>>
    /\ mask = MaskIdle
    /\ find = FindIdle
    /\ \E c \in ValidateInputs : val = [pc |-> "call", cfg |-> c, result |-> ValidOk]

NextValidate == ValidateCall

SpecValidate == InitValidate /\ [][NextValidate]_vars

---------------------------------------------------------------------------
(* The rules of configuration validation, stated on their own: rule i of   *)
(* the list holds of cfg iff RuleHolds(cfg)[i].                            *)

InByteRange(r) ==
    /\ 0 <= r.minValue /\ r.minValue <= 255
    /\ 0 <= r.maxValue /\ r.maxValue <= 255
    /\ r.minValue <= r.maxValue

InUnitInterval(x) == ~x.nan /\ 0 <= x.v /\ x.v <= 1000

RuleHolds(cfg) ==
    << Len(cfg.centerColor.hues) > 0,
       InByteRange(cfg.centerColor.satRange),
       InByteRange(cfg.centerColor.valRange),
       cfg.shape.minArea >= 1,
       cfg.shape.maxArea >= cfg.shape.minArea,
       InUnitInterval(cfg.shape.minCircularity),
       InUnitInterval(cfg.shape.minFillRatio),
       cfg.context.enabled =>
           (1 <= cfg.context.innerRadiusPercent
              /\ cfg.context.innerRadiusPercent < cfg.context.outerRadiusPercent),
       cfg.context.enabled => InUnitInterval(cfg.context.minSupportRatio),
       cfg.context.enabled => InByteRange(cfg.context.supportColor.satRange),
       cfg.context.enabled => InByteRange(cfg.context.supportColor.valRange),
       cfg.context.enabled => InByteRange(cfg.context.excludeSatRange),
       cfg.context.enabled => InByteRange(cfg.context.excludeValRange) >>

\* 0 when every rule holds, else the first rule of the list that fails
FirstFailingRule(cfg) ==
    LET failing == { i \in 1..13 : ~RuleHolds(cfg)[i] }
    IN  IF failing = {} THEN 0
        ELSE CHOOSE i \in failing : \A j \in failing : i <= j

\* the rule a reason string of ValidateConfig names (0: none)
RuleNamedBy(error) ==
    CASE error = "centerColor.hues is empty." -> 1
      [] error \in { "centerColor.satRange must be within [0,255].",
                     "centerColor.satRange must satisfy minValue <= maxValue." } -> 2
      [] error \in { "centerColor.valRange must be within [0,255].",
                     "centerColor.valRange must satisfy minValue <= maxValue." } -> 3
      [] error = "shape.minArea must be >= 1." -> 4
      [] error = "shape.maxArea must be >= shape.minArea." -> 5
      [] error = "shape.minCircularity must be in [0,1]." -> 6
      [] error = "shape.minFillRatio must be in [0,1]." -> 7
      [] error = "context ring radius percents must satisfy: 1 <= inner < outer." -> 8
      [] error = "context.minSupportRatio must be in [0,1]." -> 9
      [] error \in { "context.supportColor.satRange must be within [0,255].",
                     "context.supportColor.satRange must satisfy minValue <= maxValue." } -> 10
      [] error \in { "context.supportColor.valRange must be within [0,255].",
                     "context.supportColor.valRange must satisfy minValue <= maxValue." } -> 11
      [] error \in { "context.excludeSatRange must be within [0,255].",
                     "context.excludeSatRange must satisfy minValue <= maxValue." } -> 12
      [] error \in { "context.excludeValRange must be within [0,255].",
                     "context.excludeValRange must satisfy minValue <= maxValue." } -> 13
      [] OTHER -> 0

\* C5: ValidateConfig applies the thirteen rules in their fixed order and
\* reports the first that fails; it succeeds exactly when no rule fails (a
\* threshold is within [0,1] only if it is a number between 0 and 1); with
\* context disabled the context fields never cause a failure.
C5_FirstFailingRuleReported ==
    val.pc = "done" =>
        /\ val.result.ok <=> (FirstFailingRule(val.cfg) = 0)
        /\ ~val.result.ok => RuleNamedBy(val.result.error) = FirstFailingRule(val.cfg)
        /\ ~val.cfg.context.enabled => RuleNamedBy(val.result.error) < 8

\* C5, for configurations whose thresholds are not NaN: the same statement
C5_FirstFailingRuleReportedNoNaN ==
    (val.pc = "done"
       /\ ~val.cfg.shape.minCircularity.nan
       /\ ~val.cfg.shape.minFillRatio.nan
       /\ ~val.cfg.context.minSupportRatio.nan) =>
        /\ val.result.ok <=> (FirstFailingRule(val.cfg) = 0)
        /\ ~val.result.ok => RuleNamedBy(val.result.error) = FirstFailingRule(val.cfg)
        /\ ~val.cfg.context.enabled => RuleNamedBy(val.result.error) < 8

\* a threshold the validator rejects: a number below 0 or above 1
OutsideUnitInterval(x) == FLt(x, F(0)) \/ FGt(x, F(1000))

\* no check placed before the shape.maxArea check rejects cfg
PassesChecksBeforeMaxArea(cfg) ==
    /\ Len(cfg.centerColor.hues) > 0
    /\ InByteRange(cfg.centerColor.satRange)
    /\ InByteRange(cfg.centerColor.valRange)
    /\ cfg.shape.minArea >= 1

\* no check placed before the ring radius check rejects cfg
PassesChecksBeforeRingRadii(cfg) ==
    /\ PassesChecksBeforeMaxArea(cfg)
    /\ cfg.shape.maxArea >= cfg.shape.minArea
    /\ ~OutsideUnitInterval(cfg.shape.minCircularity)
    /\ ~OutsideUnitInterval(cfg.shape.minFillRatio)

MaxAreaReason == "shape.maxArea must be >= shape.minArea."
RingRadiiReason == "context ring radius percents must satisfy: 1 <= inner < outer."

\* C6 as stated: every configuration with maxArea < minArea fails with the
\* reason naming shape.maxArea, and every configuration with context enabled
\* and outerRadiusPercent <= innerRadiusPercent fails with the reason naming
\* the ring radius rule.
C6_ReasonAlwaysNamesTheRule ==
    val.pc = "done" =>
        /\ val.cfg.shape.maxArea < val.cfg.shape.minArea =>
              (~val.result.ok /\ val.result.error = MaxAreaReason)
        /\ (val.cfg.context.enabled
              /\ val.cfg.context.outerRadiusPercent <= val.cfg.context.innerRadiusPercent) =>
              (~val.result.ok /\ val.result.error = RingRadiiReason)

\* C6 amended: such a configuration always fails validation, and the reason
\* names shape.maxArea (the ring radius rule) whenever no check placed before
\* that one rejects the configuration.
C6_FailsAndNamesTheRuleUnlessEarlierRuleFails ==
    val.pc = "done" =>
        /\ val.cfg.shape.maxArea < val.cfg.shape.minArea =>
              /\ ~val.result.ok
              /\ PassesChecksBeforeMaxArea(val.cfg) => val.result.error = MaxAreaReason
        /\ (val.cfg.context.enabled
              /\ val.cfg.context.outerRadiusPercent <= val.cfg.context.innerRadiusPercent) =>
              /\ ~val.result.ok
              /\ PassesChecksBeforeRingRadii(val.cfg) => val.result.error = RingRadiiReason

\* C6 witness: a validated configuration with both faults, reported as the
\* shape.maxArea failure
C6_Witness ==
    /\ val.pc = "done"
    /\ val.cfg.shape.maxArea < val.cfg.shape.minArea
    /\ val.cfg.context.enabled
    /\ val.cfg.context.outerRadiusPercent <= val.cfg.context.innerRadiusPercent
    /\ val.result.error = MaxAreaReason

---------------------------------------------------------------------------
(* SpecMask: HueRangeSet::BuildMask on one pixel, for hue range lists       *)
(* (plain, wrap-around, several, empty, out of [0,179] before Add),         *)
(* saturation and value bounds (plain, reversed, out of [0,255]) and        *)
(* pixels at the boundaries of the ranges.                                  *)

MaskRangeInputs ==
    { <<>>,
      <<HueRange(10, 20)>>,
      <<HueRange(170, 10)>>,
      <<HueRange(10, 20), HueRange(170, 10)>>,
      <<HueRange(20, 20)>>,
      <<HueRange(-5, 200)>>,
      <<HueRange(179, 0)>> }
MaskHueInputs == { 0, 1, 9, 10, 11, 20, 21, 169, 170, 178, 179 }
MaskSatInputs == { 0, 99, 100, 150, 151, 255 }
MaskValInputs == { 0, 120, 255 }
MaskSatRangeInputs ==
    { ChannelRange(0, 255), ChannelRange(100, 150), ChannelRange(150, 100),
      ChannelRange(-10, 100), ChannelRange(100, 300) }
MaskValRangeInputs == { ChannelRange(0, 255), ChannelRange(120, 255), ChannelRange(255, 120) }

InitMask ==
    /\ g_activeConfig = BuildDefaultPatternConfig
    /\ g_cfgMutex = 0
    /\ committed = BuildDefaultPatternConfig
    /\ call = CallIdle
    /\ threads = <<>>
    /\ val = ValIdle
    /\ find = FindIdle
    /\ \E r \in MaskRangeInputs, h \in MaskHueInputs, s \in MaskSatInputs,
          v \in MaskValInputs, sr \in MaskSatRangeInputs, vr \in MaskValRangeInputs :
          mask = [ pc |-> "call", ranges |-> HueRangeSet(r), px |-> Pixel(h, s, v),
                   sat |-> sr, val |-> vr, out |-> 0 ]

\* a caller runs ranges.BuildMask(hsv, satMin, satMax, valMin, valMax)
BuildMaskCall ==
    /\ mask.pc = "call"
    /\ mask' = [mask EXCEPT
                  !.pc = "done",
                  !.out = BuildMaskPixel(mask.ranges, mask.px, mask.sat.minValue,
                                         mask.sat.maxValue, mask.val.minValue,
                                         mask.val.maxValue)]
    /\ UNCHANGED <<g_activeConfig, g_cfgMutex, committed, threads, val, find, call>>

NextMask == BuildMaskCall

SpecMask == InitMask /\ [][NextMask]_vars

\* membership of a hue in a stored hue range, wrap-around included
HueInRange(r, h) ==
    IF r.minHue <= r.maxHue
    THEN r.minHue <= h /\ h <= r.maxHue
    ELSE h <= r.maxHue \/ h >= r.minHue

HueInSomeRange(ranges, h) == \E i \in 1..Len(ranges) : HueInRange(ranges[i], h)

InChannelRange(r, x) == r.minValue <= x /\ x <= r.maxValue

\* between the two bounds, whichever is the larger
BetweenBounds(r, x) ==
    Min(r.minValue, r.maxValue) <= x /\ x <= Max(r.minValue, r.maxValue)

\* C7 as stated: a pixel is foreground exactly when s lies in the saturation
\* range, v lies in the value range and some stored hue range contains h.
C7_ForegroundIffInRanges ==
    mask.pc = "done" =>
        ((mask.out = 255) <=>
            /\ InChannelRange(mask.sat, mask.px.s)
            /\ InChannelRange(mask.val, mask.px.v)
            /\ HueInSomeRange(mask.ranges, mask.px.h))

\* C7 amended: a pixel is foreground exactly when s lies between the two
\* saturation bounds and v between the two value bounds (taken in either
\* order, since BuildMask swaps reversed bounds) and some stored hue range
\* contains h; with an empty hue range set every pixel is background.
C7_ForegroundIffBetweenBounds ==
    mask.pc = "done" =>
        /\ (mask.out = 255) <=>
              /\ BetweenBounds(mask.sat, mask.px.s)
              /\ BetweenBounds(mask.val, mask.px.v)
              /\ HueInSomeRange(mask.ranges, mask.px.h)
        /\ mask.out \in {0, 255}
        /\ Len(mask.ranges) = 0 => mask.out = 0

\* C7 witness: a foreground pixel under a wrap-around hue range
C7_Witness ==
    /\ mask.pc = "done"
    /\ mask.out = 255
    /\ \E i \in 1..Len(mask.ranges) : mask.ranges[i].minHue > mask.ranges[i].maxHue
    /\ mask.px.h = 179

---------------------------------------------------------------------------
(* SpecFind: ColorPatternFinder::Find on one-row frames over a palette of   *)
(* four colours (centre, support, excluded, background), for a set of       *)
(* configurations, with the measurements of each contour drawn from         *)
(* ContourProfiles.                                                         *)

FrameWidth == 4

CenterPixel == Pixel(20, 100, 200)      \* centre colour; also bright
SupportPixel == Pixel(100, 10, 200)     \* bright, not a centre or excluded hue
ExcludedPixel == Pixel(60, 100, 200)    \* bright, an excluded hue
BackgroundPixel == Pixel(0, 0, 0)
Palette == { CenterPixel, SupportPixel, ExcludedPixel, BackgroundPixel }

Frames == [1..FrameWidth -> Palette] \cup { <<>> }

\* contourArea, arcLength and the enclosing circle's radius, in thousandths
ContourProfiles ==
    { [area |-> 0,     perimeter |-> 2000,  radius |-> 500],    \* a line: no area
      [area |-> 70000, perimeter |-> 31000, radius |-> 5100],   \* a disc
      [area |-> 1000,  perimeter |-> 4000,  radius |-> 707],    \* a 2x2 block
      [area |-> 1500,  perimeter |-> 100,   radius |-> 0],      \* degenerate
      [area |-> 60000, perimeter |-> 45000, radius |-> 15000],  \* elongated
      [area |-> 90000, perimeter |-> 36000, radius |-> 1400] }  \* too large

FindBase ==
    [BuildDefaultPatternConfig EXCEPT
        !.centerMorph = [openIterations |-> 0, closeIterations |-> 0,
                         dilateIterations |-> 0],
        !.shape.maxArea = 80]

FindConfigs ==
    { FindBase,
      [FindBase EXCEPT !.context.enabled = FALSE],
      [FindBase EXCEPT !.context.excludeHues = <<>>],
      [FindBase EXCEPT !.centerMorph.openIterations = 1],
      [FindBase EXCEPT !.context.enabled = FALSE,
                       !.context.excludeHues = <<>>,
                       !.context.minSupportRatio = F(1000),
                       !.context.supportColor.valRange = ChannelRange(255, 255),
                       !.centerMorph.closeIterations = 1,
                       !.centerMorph.dilateIterations = 1],
      [FindBase EXCEPT !.context.minSupportRatio = F(1000),
                       !.context.innerRadiusPercent = 50,
                       !.context.outerRadiusPercent = 150,
                       !.shape.minArea = 1,
                       !.shape.minCircularity = F(0),
                       !.shape.minFillRatio = F(0)],
      [FindBase EXCEPT !.context.enabled = FALSE,
                       !.centerMorph.openIterations = -1,
                       !.debug.drawRejected = TRUE],
      BuildDefaultPatternConfig }

InitFind ==
    /\ g_activeConfig = BuildDefaultPatternConfig
    /\ g_cfgMutex = 0
    /\ committed = BuildDefaultPatternConfig
    /\ call = CallIdle
    /\ threads = <<>>
    /\ val = ValIdle
    /\ mask = MaskIdle
    /\ \E c \in FindConfigs, f \in Frames :
          find = [FindIdle EXCEPT !.pc = "start", !.cfg = c, !.hsv = f]

\* Find on an empty scene: throw std::invalid_argument
FindThrow ==
    /\ find.pc = "start"
    /\ Len(find.hsv) = 0
    /\ find' = [find EXCEPT !.pc = "threw"]
    /\ UNCHANGED <<g_activeConfig, g_cfgMutex, committed, threads, val, mask, call>>

\* a slip: Find filling the result that the previous call left behind
FindMasksOnStaleResult ==
    /\ find.pc = "start"
    /\ Len(find.hsv) # 0
    /\ LET cfg == find.cfg
           centerMask == ApplyMorphology(BuildMask(find.hsv, cfg.centerColor),
                                         cfg.centerMorph)
           runs == Runs(centerMask)
       IN  \E measured \in [1..Len(runs) -> ContourProfiles] :
              find' = [find EXCEPT
                  !.pc = "loop",
                  !.centerMask = centerMask,
                  !.supportMask = IF cfg.context.enabled
                                  THEN BuildMask(find.hsv, cfg.context.supportColor)
                                  ELSE <<>>,
                  !.excludeMask = IF cfg.context.enabled /\ ~Empty(cfg.context.excludeHues)
                                  THEN BuildExcludeMask(find.hsv, cfg.context.excludeHues,
                                                        cfg.context.excludeSatRange,
                                                        cfg.context.excludeValRange)
                                  ELSE <<>>,
                  !.contours = [ k \in 1..Len(runs) |->
                                   [ lo |-> runs[k].lo, hi |-> runs[k].hi,
                                     area |-> measured[k].area,
                                     perimeter |-> measured[k].perimeter,
                                     radius |-> measured[k].radius ] ],
                  !.i = 1,
                  !.result.rawCandidateCount = Len(runs)]
    /\ UNCHANGED <<g_activeConfig, g_cfgMutex, committed, threads, val, mask, call>>

\* Find up to the loop: the masks, the contours, rawCandidateCount and
\* sceneMaskCoverage
FindMasks ==
    /\ find.pc = "start"
    /\ Len(find.hsv) # 0
    /\ LET cfg == find.cfg
           centerMask == ApplyMorphology(BuildMask(find.hsv, cfg.centerColor),
                                         cfg.centerMorph)
           supportMask == IF cfg.context.enabled
                          THEN BuildMask(find.hsv, cfg.context.supportColor)
                          ELSE <<>>
           excludeMask == IF cfg.context.enabled /\ ~Empty(cfg.context.excludeHues)
                          THEN BuildExcludeMask(find.hsv, cfg.context.excludeHues,
                                                cfg.context.excludeSatRange,
                                                cfg.context.excludeValRange)
                          ELSE <<>>
           runs == Runs(centerMask)
       IN  \E measured \in [1..Len(runs) -> ContourProfiles] :
              find' = [find EXCEPT
                  !.pc = "loop",
                  !.centerMask = centerMask,
                  !.supportMask = supportMask,
                  !.excludeMask = excludeMask,
                  !.contours = [ k \in 1..Len(runs) |->
                                   [ lo |-> runs[k].lo, hi |-> runs[k].hi,
                                     area |-> measured[k].area,
                                     perimeter |-> measured[k].perimeter,
                                     radius |-> measured[k].radius ] ],
                  !.i = 1,
                  !.result = [EmptyRunResult EXCEPT
                      !.rawCandidateCount = Len(runs),
                      !.sceneMaskCoverage =
                          SafeDiv(CountNonZero(centerMask), Len(centerMask))]]
    /\ UNCHANGED <<g_activeConfig, g_cfgMutex, committed, threads, val, mask, call>>

\* a slip: the contour without area is measured and pushed like the others
FindSkipContourMeasured ==
    /\ find.pc = "loop"
    /\ find.i <= Len(find.contours)
    /\ find.contours[find.i].area <= 0
    /\ find' = [find EXCEPT
          !.i = find.i + 1,
          !.result.detections =
              Append(find.result.detections,
                     Candidate(find.cfg, find.contours[find.i], Len(find.centerMask),
                               find.supportMask, find.excludeMask))]
    /\ UNCHANGED <<g_activeConfig, g_cfgMutex, committed, threads, val, mask, call>>

\* one turn of the loop, a contour of area <= 0: continue
FindSkipContour ==
    /\ find.pc = "loop"
    /\ find.i <= Len(find.contours)
    /\ find.contours[find.i].area <= 0
    /\ find' = [find EXCEPT !.i = find.i + 1]
    /\ UNCHANGED <<g_activeConfig, g_cfgMutex, committed, threads, val, mask, call>>

\* a slip: the area flag of a candidate cleared when its context fails
FindCandidateShapeGated ==
    /\ find.pc = "loop"
    /\ find.i <= Len(find.contours)
    /\ find.contours[find.i].area > 0
    /\ LET d == Candidate(find.cfg, find.contours[find.i], Len(find.centerMask),
                          find.supportMask, find.excludeMask)
       IN  find' = [find EXCEPT
              !.i = find.i + 1,
              !.result.detections =
                  Append(find.result.detections,
                         [d EXCEPT !.metrics.passesArea = @ /\ d.metrics.passesContext])]
    /\ UNCHANGED <<g_activeConfig, g_cfgMutex, committed, threads, val, mask, call>>

\* one turn of the loop, a contour of positive area: its detection is pushed
FindCandidate ==
    /\ find.pc = "loop"
    /\ find.i <= Len(find.contours)
    /\ find.contours[find.i].area > 0
    /\ find' = [find EXCEPT
          !.i = find.i + 1,
          !.result.detections =
              Append(find.result.detections,
                     Candidate(find.cfg, find.contours[find.i], Len(find.centerMask),
                               find.supportMask, find.excludeMask))]
    /\ UNCHANGED <<g_activeConfig, g_cfgMutex, committed, threads, val, mask, call>>

\* std::sort of result.detections
FindSort ==
    /\ find.pc = "loop"
    /\ find.i > Len(find.contours)
    /\ \E sorted \in SortedResults(find.result.detections) :
          find' = [find EXCEPT !.pc = "sorted", !.result.detections = sorted]
    /\ UNCHANGED <<g_activeConfig, g_cfgMutex, committed, threads, val, mask, call>>

\* the loop over the sorted detections, acceptedRatio, return result
FindAggregate ==
    /\ find.pc = "sorted"
    /\ LET accepted == AcceptedDetections(find.result.detections)
           filled == [find.result EXCEPT
                         !.acceptedCentersPx = [ k \in 1..Len(accepted) |-> accepted[k].centerPx ],
                         !.acceptedBoxesPx = [ k \in 1..Len(accepted) |-> accepted[k].boxPx ],
                         !.acceptedCount = Len(accepted),
                         !.score = MaxScore(accepted)]
       IN  find' = [find EXCEPT
                      !.pc = "done",
                      !.result = [filled EXCEPT !.acceptedRatio = AcceptedRatio(filled)]]
    /\ UNCHANGED <<g_activeConfig, g_cfgMutex, committed, threads, val, mask, call>>

NextFind ==
    \/ FindThrow
    \/ FindMasks
    \/ FindSkipContour
    \/ FindCandidate
    \/ FindSort
    \/ FindAggregate

SpecFind == InitFind /\ [][NextFind]_vars

\* the detections of the RunResult under construction or returned
Detections == find.result.detections

\* C2: for every detection of a RunResult, accepted is true exactly when
\* passesArea, passesCircularity, passesCenterFill and passesContext all are.
C2_AcceptedIffAllFlags ==
    \A k \in 1..Len(Detections) :
        Detections[k].metrics.accepted <=>
            /\ Detections[k].metrics.passesArea
            /\ Detections[k].metrics.passesCircularity
            /\ Detections[k].metrics.passesCenterFill
            /\ Detections[k].metrics.passesContext

\* C2 witness: a returned result with an accepted detection and one that is
\* rejected by the context flag alone
C2_Witness ==
    /\ find.pc = "done"
    /\ \E j, k \in 1..Len(Detections) :
          /\ Detections[j].metrics.accepted
          /\ ~Detections[k].metrics.accepted
          /\ Detections[k].metrics.passesArea
          /\ Detections[k].metrics.passesCircularity
          /\ Detections[k].metrics.passesCenterFill
          /\ ~Detections[k].metrics.passesContext

\* C3: in the detections of every RunResult every accepted detection comes
\* before every rejected one, and within each group the scores do not increase.
C3_AcceptedFirstThenByScore ==
    find.pc \in {"sorted", "done"} =>
        \A j, k \in 1..Len(Detections) :
            j < k =>
                /\ Detections[k].metrics.accepted => Detections[j].metrics.accepted
                /\ Detections[j].metrics.accepted = Detections[k].metrics.accepted =>
                      Detections[j].metrics.score >= Detections[k].metrics.score

\* C3 witness: a returned result whose accepted detection stands before a
\* rejected detection of higher score
C3_Witness ==
    /\ find.pc = "done"
    /\ Len(Detections) = 2
    /\ Detections[1].metrics.accepted
    /\ ~Detections[2].metrics.accepted
    /\ Detections[2].metrics.score > Detections[1].metrics.score

\* C8: with context.enabled false every detection has ringSupportRatio = 1
\* and passesContext = true, whatever the frame, the support colour, the
\* exclude hues and minSupportRatio are.
C8_DisabledContextAlwaysPasses ==
    ~find.cfg.context.enabled =>
        \A k \in 1..Len(Detections) :
            /\ Detections[k].metrics.ringSupportRatio = 1000
            /\ Detections[k].metrics.passesContext

\* C8 witness: context disabled, minSupportRatio 1 and a support colour no
\* pixel of the frame has, and a detection was produced
C8_Witness ==
    /\ find.pc = "done"
    /\ ~find.cfg.context.enabled
    /\ find.cfg.context.minSupportRatio = F(1000)
    /\ \A p \in 1..Len(find.hsv) :
          BuildMask(find.hsv, find.cfg.context.supportColor)[p] = 0
    /\ \E p \in 1..Len(find.hsv) : find.hsv[p] = ExcludedPixel
    /\ Len(Detections) > 0

\* C9: for every detection, circularity and centerFillRatio are within [0,1],
\* also for contours of near-zero perimeter or zero enclosing-circle radius.
C9_CircularityAndFillWithinUnit ==
    \A k \in 1..Len(Detections) :
        /\ 0 <= Detections[k].metrics.circularity
        /\ Detections[k].metrics.circularity <= 1000
        /\ 0 <= Detections[k].metrics.centerFillRatio
        /\ Detections[k].metrics.centerFillRatio <= 1000

\* C9 witness: a detection of a contour with enclosing-circle radius 0 and a
\* perimeter of a tenth of a pixel, both ratios at the upper end
C9_Witness ==
    /\ find.pc = "done"
    /\ \E k \in 1..Len(Detections) :
          /\ Detections[k].radiusPx = 0
          /\ Detections[k].metrics.circularity = 1000
          /\ Detections[k].metrics.centerFillRatio = 1000

\* C10: acceptedRatio is acceptedCount divided by max(1, rawCandidateCount)
\* (here: its thousandths, rounded down), and 0 when there is no candidate.
C10_AcceptedRatio ==
    find.pc = "done" =>
        LET r == find.result
            den == IF r.rawCandidateCount < 1 THEN 1 ELSE r.rawCandidateCount
        IN  /\ r.acceptedRatio * den <= r.acceptedCount * 1000
            /\ r.acceptedCount * 1000 < (r.acceptedRatio + 1) * den
            /\ r.rawCandidateCount = 0 => r.acceptedRatio = 0

\* C10 witness: two contours, one skipped for its zero area and one accepted
C10_Witness ==
    /\ find.pc = "done"
    /\ find.result.rawCandidateCount = 2
    /\ Len(Detections) = 1
    /\ find.result.acceptedCount = 1
    /\ find.result.acceptedRatio = 500

\* the accepted detections of the result, in the order of the sequence
AcceptedInOrder == SelectSeq(Detections, LAMBDA d : d.metrics.accepted)

\* C11: acceptedCentersPx and acceptedBoxesPx each have acceptedCount
\* entries, and their i-th entries are the centre and the bounding box of the
\* i-th accepted detection of the sorted detections.
C11_AcceptedListsFollowDetections ==
    find.pc = "done" =>
        /\ Len(find.result.acceptedCentersPx) = find.result.acceptedCount
        /\ Len(find.result.acceptedBoxesPx) = find.result.acceptedCount
        /\ Len(AcceptedInOrder) = find.result.acceptedCount
        /\ \A k \in 1..Len(AcceptedInOrder) :
              /\ find.result.acceptedCentersPx[k] = AcceptedInOrder[k].centerPx
              /\ find.result.acceptedBoxesPx[k] = AcceptedInOrder[k].boxPx

\* C11 witness: a result with an accepted detection followed by a rejected
\* one, and the centre list holding the accepted one only
C11_Witness ==
    /\ find.pc = "done"
    /\ Len(Detections) = 2
    /\ find.result.acceptedCount = 1
    /\ ~Detections[2].metrics.accepted
    /\ find.result.acceptedCentersPx = <<Detections[1].centerPx>>

\* C12: score is the maximum of the scores of the accepted detections, and 0
\* when no detection is accepted; rejected detections do not contribute.
C12_ScoreIsMaxAcceptedScore ==
    find.pc = "done" =>
        IF AcceptedInOrder = <<>>
        THEN find.result.score = 0
        ELSE /\ \E k \in 1..Len(AcceptedInOrder) :
                    find.result.score = AcceptedInOrder[k].metrics.score
             /\ \A k \in 1..Len(AcceptedInOrder) :
                    find.result.score >= AcceptedInOrder[k].metrics.score

\* C12 witness: two accepted detections of different scores
C12_Witness ==
    /\ find.pc = "done"
    /\ find.result.acceptedCount = 2
    /\ Detections[1].metrics.score > Detections[2].metrics.score
    /\ find.result.score = Detections[1].metrics.score

\* C12, second witness state: nothing accepted although a rejected detection
\* has a positive score
C12_RejectedOnly ==
    /\ find.pc = "done"
    /\ find.result.acceptedCount = 0
    /\ \E k \in 1..Len(Detections) : Detections[k].metrics.score > 0

\* pixel px satisfies the colour spec (hue set, saturation and value ranges)
SatisfiesColor(px, color) ==
    /\ \E k \in 1..Len(color.hues) : HueInRange(color.hues[k], px.h)
    /\ InChannelRange(color.satRange, px.s)
    /\ InChannelRange(color.valRange, px.v)

\* no pixel of the frame of the current Find call satisfies the centre colour
NoCenterPixel ==
    \A p \in 1..Len(find.hsv) : ~SatisfiesColor(find.hsv[p], find.cfg.centerColor)

\* C13: for a frame in which no pixel satisfies the centre colour spec, and
\* any morphology iteration counts, Find has rawCandidateCount = 0,
\* acceptedCount = 0, no detections and empty accepted lists.
C13_NoCenterPixelNoCandidate ==
    (find.pc \in {"loop", "sorted", "done"} /\ NoCenterPixel) =>
        /\ find.result.rawCandidateCount = 0
        /\ find.result.acceptedCount = 0
        /\ find.result.detections = <<>>
        /\ find.result.acceptedCentersPx = <<>>
        /\ find.result.acceptedBoxesPx = <<>>

\* C13 witness: Find has returned for a frame of support-coloured and
\* excluded pixels only, under a configuration that opens, closes and dilates
C13_Witness ==
    /\ find.pc = "done"
    /\ NoCenterPixel
    /\ \E p \in 1..Len(find.hsv) : find.hsv[p] = SupportPixel
    /\ \E p \in 1..Len(find.hsv) : find.hsv[p] = ExcludedPixel
    /\ find.cfg.centerMorph.openIterations > 0
    /\ find.cfg.centerMorph.closeIterations > 0
    /\ find.cfg.centerMorph.dilateIterations > 0
    /\ find.result.rawCandidateCount = 0

\* the six values of a detection that describe its shape
ShapeValues(d) ==
    <<d.metrics.areaPx, d.metrics.circularity, d.metrics.centerFillRatio,
      d.metrics.passesArea, d.metrics.passesCircularity, d.metrics.passesCenterFill>>

\* the contour of the current Find call that detection d was made from
ContourOf(d) ==
    CHOOSE c \in { find.contours[k] : k \in 1..Len(find.contours) } : c.lo = d.boxPx.x

\* other runs on the same cleaned centre mask: a configuration with the same
\* shape filter, a support mask and an exclude mask
OtherContexts ==
    LET n == Len(find.centerMask)
    IN  { [cfg |-> c, supportMask |-> s, excludeMask |-> e] :
            c \in { x \in FindConfigs : x.shape = find.cfg.shape },
            s \in { SeqOf(LAMBDA p : 0, n), SeqOf(LAMBDA p : 255, n) },
            e \in { <<>>, SeqOf(LAMBDA p : 255, n), find.excludeMask } }

\* the detection another run makes from the contour of d
InOtherContext(d, o) ==
    Candidate(o.cfg, ContourOf(d), Len(find.centerMask), o.supportMask, o.excludeMask)

\* C14: areaPx, circularity, centerFillRatio, passesArea, passesCircularity
\* and passesCenterFill of a candidate are the same in every run with the
\* same cleaned centre mask and shape config, whatever the support mask, the
\* exclude mask and the context settings are.
C14_ShapeValuesIndependentOfContext ==
    find.pc = "done" =>
        \A k \in 1..Len(Detections) : \A o \in OtherContexts :
            ShapeValues(InOtherContext(Detections[k], o)) = ShapeValues(Detections[k])

\* C14 witness: an accepted detection that, with the ring colour removed from
\* the support mask, fails its context and is rejected with a lower score
C14_Witness ==
    /\ find.pc = "done"
    /\ find.cfg.context.enabled
    /\ \E k \in 1..Len(Detections) :
          LET o == [cfg |-> find.cfg, excludeMask |-> find.excludeMask,
                    supportMask |-> SeqOf(LAMBDA p : 0, Len(find.centerMask))]
              other == InOtherContext(Detections[k], o)
          IN  /\ Detections[k].metrics.accepted
              /\ ~other.metrics.passesContext
              /\ ~other.metrics.accepted
              /\ other.metrics.score < Detections[k].metrics.score

---------------------------------------------------------------------------
(* ChromaCore.cpp: marshalling between ChromaConfigV1 and                   *)
(* vision::ColorPatternConfig                                               *)

\* a pointer argument: null, or pointing at a value
NullPtr == [null |-> TRUE]
Ptr(v) == [null |-> FALSE, at |-> v]

\* ValidateChannelRange(range, name, errorOut)
ValidateChannelRange(range, name) ==
    IF \/ range.minValue < 0 \/ range.minValue > 255
       \/ range.maxValue < 0 \/ range.maxValue > 255
    THEN SetError(name \o " must be in [0,255].")
    ELSE IF range.minValue > range.maxValue
    THEN SetError(name \o " must satisfy minValue <= maxValue.")
    ELSE ValidOk

\* ValidateHueRange(range, name, errorOut)
ValidateHueRange(range, name) ==
    IF \/ range.minHue < 0 \/ range.minHue > 179
       \/ range.maxHue < 0 \/ range.maxHue > 179
    THEN SetError(name \o " must be in [0,179].")
    ELSE ValidOk

\* the loops of ConvertApiConfigToPattern over the first count entries of a
\* hue array: some entry fails ValidateHueRange
HueArrayRejected(ranges, count) ==
    \E i \in 1..count : ~ValidateHueRange(ranges[i], "").ok

\* the entry at which such a loop returns
FirstRejectedHue(ranges, count) ==
    ranges[CHOOSE i \in 1..count :
              /\ ~ValidateHueRange(ranges[i], "").ok
              /\ \A j \in 1..(i - 1) : ValidateHueRange(ranges[j], "").ok]

\* the four ValidateChannelRange calls of ConvertApiConfigToPattern, joined
\* by ||: the result of the first that fails
ValidateApiChannelRanges(in) ==
    IF ~ValidateChannelRange(in.centerSatRange, "centerSatRange").ok
    THEN ValidateChannelRange(in.centerSatRange, "centerSatRange")
    ELSE IF ~ValidateChannelRange(in.centerValRange, "centerValRange").ok
    THEN ValidateChannelRange(in.centerValRange, "centerValRange")
    ELSE IF ~ValidateChannelRange(in.contextSupportSatRange, "contextSupportSatRange").ok
    THEN ValidateChannelRange(in.contextSupportSatRange, "contextSupportSatRange")
    ELSE ValidateChannelRange(in.contextSupportValRange, "contextSupportValRange")

\* the ColorPatternConfig that ConvertApiConfigToPattern fills in from the
\* fields of a ChromaConfigV1 (the local cfg just before it is validated)
PatternFromApi(in) ==
    [ centerColor |-> [ hues |-> HueRangeSet(SubSeq(in.centerHueRanges, 1,
                                                   in.centerHueRangeCount)),
                        satRange |-> ChannelRange(in.centerSatRange.minValue,
                                                  in.centerSatRange.maxValue),
                        valRange |-> ChannelRange(in.centerValRange.minValue,
                                                  in.centerValRange.maxValue) ],
      centerMorph |-> [ openIterations |-> in.centerMorphOpenIterations,
                        closeIterations |-> in.centerMorphCloseIterations,
                        dilateIterations |-> in.centerDilateIterations ],
      shape |-> [ minArea |-> in.minBlobArea, maxArea |-> in.maxBlobArea,
                  minCircularity |-> in.minCircularity,
                  minFillRatio |-> in.minCenterFillRatio ],
      context |-> [ enabled |-> (in.requireContextRing # 0),
                    innerRadiusPercent |-> in.ringInnerRadiusPercent,
                    outerRadiusPercent |-> in.ringOuterRadiusPercent,
                    supportColor |->
                        [ hues |-> HueRangeSet(<<HueRange(0, 179)>>),
                          satRange |-> ChannelRange(in.contextSupportSatRange.minValue,
                                                    in.contextSupportSatRange.maxValue),
                          valRange |-> ChannelRange(in.contextSupportValRange.minValue,
                                                    in.contextSupportValRange.maxValue) ],
                    excludeHues |-> HueRangeSet(SubSeq(in.contextExcludeHueRanges, 1,
                                                       in.contextExcludeHueRangeCount)),
                    excludeSatRange |-> ChannelRange(in.contextSupportSatRange.minValue,
                                                     in.contextSupportSatRange.maxValue),
                    excludeValRange |-> ChannelRange(in.contextSupportValRange.minValue,
                                                     in.contextSupportValRange.maxValue),
                    minSupportRatio |-> in.contextMinSupportRatio ],
      debug |-> [ drawRejected |-> (in.drawRejectedCandidates # 0) ] ]

\* a variant in which the converted configuration is never refused
PatternNeverRejected(cfg) == FALSE

\* ConvertApiConfigToPattern: if (!ValidateConfig(cfg, &validationError))
PatternRejected(cfg) == ~ValidateConfig(cfg).ok

\* the result of a conversion: the status, the error text and what outCfg holds
Converted(status, error, cfg) == [status |-> status, error |-> error, cfg |-> cfg]

\* ConvertApiConfigToPattern(in, outCfg, errorOut)
ConvertApiConfigToPattern(in, outCfg) ==
    IF in.structSize < SizeofChromaConfigV1
    THEN Converted(CHROMA_STATUS_INVALID_ARGUMENT,
                   "ChromaConfigV1.structSize is smaller than required.", outCfg)
    ELSE IF in.centerHueRangeCount < 1 \/ in.centerHueRangeCount > CHROMA_MAX_HUE_RANGES
    THEN Converted(CHROMA_STATUS_CONFIG_ERROR,
                   "centerHueRangeCount must be in [1, CHROMA_MAX_HUE_RANGES].", outCfg)
    ELSE IF \/ in.contextExcludeHueRangeCount < 0
            \/ in.contextExcludeHueRangeCount > CHROMA_MAX_HUE_RANGES
    THEN Converted(CHROMA_STATUS_CONFIG_ERROR,
                   "contextExcludeHueRangeCount must be in [0, CHROMA_MAX_HUE_RANGES].",
                   outCfg)
    ELSE IF ~ValidateApiChannelRanges(in).ok
    THEN Converted(CHROMA_STATUS_CONFIG_ERROR, ValidateApiChannelRanges(in).error, outCfg)
    ELSE IF HueArrayRejected(in.centerHueRanges, in.centerHueRangeCount)
    THEN Converted(CHROMA_STATUS_CONFIG_ERROR,
                   ValidateHueRange(FirstRejectedHue(in.centerHueRanges,
                                                    in.centerHueRangeCount),
                                    "centerHueRanges[i]").error, outCfg)
    ELSE IF HueArrayRejected(in.contextExcludeHueRanges, in.contextExcludeHueRangeCount)
    THEN Converted(CHROMA_STATUS_CONFIG_ERROR,
                   ValidateHueRange(FirstRejectedHue(in.contextExcludeHueRanges,
                                                    in.contextExcludeHueRangeCount),
                                    "contextExcludeHueRanges[i]").error, outCfg)
    ELSE IF PatternRejected(PatternFromApi(in))
    THEN Converted(CHROMA_STATUS_CONFIG_ERROR,
                   ValidateConfig(PatternFromApi(in)).error, outCfg)
    ELSE Converted(CHROMA_STATUS_OK, "", PatternFromApi(in))

\* a slip: the hue ranges of the result left zeroed
ApiHueArrayZeroed(ranges, count) ==
    SeqOf(LAMBDA i : HueRange(0, 0), CHROMA_MAX_HUE_RANGES)

\* the fixed-size hue array of a ChromaConfigV1: the first count entries
\* copied, the rest as zero-initialised
ApiHueArray(ranges, count) ==
    SeqOf(LAMBDA i : IF i <= count
                     THEN HueRange(ranges[i].minHue, ranges[i].maxHue)
                     ELSE HueRange(0, 0),
          CHROMA_MAX_HUE_RANGES)

\* ConvertPatternToApiConfig(in)
ConvertPatternToApiConfig(in) ==
    [ structSize |-> SizeofChromaConfigV1,
      centerHueRangeCount |-> Min(Len(in.centerColor.hues), CHROMA_MAX_HUE_RANGES),
      centerHueRanges |->
          ApiHueArray(in.centerColor.hues,
                      Min(Len(in.centerColor.hues), CHROMA_MAX_HUE_RANGES)),
      centerSatRange |-> ChannelRange(in.centerColor.satRange.minValue,
                                      in.centerColor.satRange.maxValue),
      centerValRange |-> ChannelRange(in.centerColor.valRange.minValue,
                                      in.centerColor.valRange.maxValue),
      centerMorphOpenIterations |-> in.centerMorph.openIterations,
      centerMorphCloseIterations |-> in.centerMorph.closeIterations,
      centerDilateIterations |-> in.centerMorph.dilateIterations,
      minBlobArea |-> in.shape.minArea,
      maxBlobArea |-> in.shape.maxArea,
      minCircularity |-> in.shape.minCircularity,
      minCenterFillRatio |-> in.shape.minFillRatio,
      requireContextRing |-> IF in.context.enabled THEN 1 ELSE 0,
      ringInnerRadiusPercent |-> in.context.innerRadiusPercent,
      ringOuterRadiusPercent |-> in.context.outerRadiusPercent,
      contextSupportSatRange |-> ChannelRange(in.context.supportColor.satRange.minValue,
                                              in.context.supportColor.satRange.maxValue),
      contextSupportValRange |-> ChannelRange(in.context.supportColor.valRange.minValue,
                                              in.context.supportColor.valRange.maxValue),
      contextExcludeHueRangeCount |-> Min(Len(in.context.excludeHues), CHROMA_MAX_HUE_RANGES),
      contextExcludeHueRanges |->
          ApiHueArray(in.context.excludeHues,
                      Min(Len(in.context.excludeHues), CHROMA_MAX_HUE_RANGES)),
      contextMinSupportRatio |-> in.context.minSupportRatio,
      drawRejectedCandidates |-> IF in.debug.drawRejected THEN 1 ELSE 0 ]

\* BuildConfigFromPointer(config, outCfg, outError, outErrorChars)
BuildConfigFromPointer(config, outCfg) ==
    IF config.null
    THEN Converted(CHROMA_STATUS_INVALID_ARGUMENT, "config is null.", outCfg)
    ELSE ConvertApiConfigToPattern(config.at, outCfg)

---------------------------------------------------------------------------
(* ChromaCore.cpp: the checks and outputs of the Locate entry points *)

\* the bitmap and output arguments of a Locate call
BitmapArgs(pixelsNull, width, height, strideBytes, outCapacity, pointsNull) ==
    [ pixelsNull |-> pixelsNull, width |-> width, height |-> height,
      strideBytes |-> strideBytes, outCapacity |-> outCapacity,
      pointsNull |-> pointsNull ]

NoArgs == BitmapArgs(TRUE, 0, 0, 0, 0, TRUE)

\* a status with the text written to outError
Outcome(status, error) == [status |-> status, error |-> error]

\* ValidateOutputArgs(outCapacity, outPoints, outError, outErrorChars)
ValidateOutputArgs(a) ==
    IF a.outCapacity < 0
    THEN Outcome(CHROMA_STATUS_INVALID_ARGUMENT, "outCapacity must be >= 0.")
    ELSE IF a.outCapacity > 0 /\ a.pointsNull
    THEN Outcome(CHROMA_STATUS_INVALID_ARGUMENT, "outPoints is null while outCapacity > 0.")
    ELSE Outcome(CHROMA_STATUS_OK, "")

\* the argument checks that LocateBitmapImpl and LocateBitmapWithDebugBGRAW
\* both make before they build the scene (a row offset always fits size_t on
\* a 64-bit build, so that check never fires)
ValidateBitmapArgs(a) ==
    IF a.pixelsNull
    THEN Outcome(CHROMA_STATUS_INVALID_ARGUMENT, "bgraPixels is null.")
    ELSE IF a.width <= 0 \/ a.height <= 0
    THEN Outcome(CHROMA_STATUS_INVALID_ARGUMENT, "width/height must be > 0.")
    ELSE IF a.strideBytes = 0
    THEN Outcome(CHROMA_STATUS_INVALID_ARGUMENT, "strideBytes must not be 0.")
    ELSE IF Abs(a.strideBytes) < a.width * 4
    THEN Outcome(CHROMA_STATUS_INVALID_ARGUMENT, "strideBytes is smaller than width*4.")
    ELSE ValidateOutputArgs(a)

\* WriteLocateOutputs for total accepted centres
WriteLocateOutputs(total, a) ==
    IF a.pointsNull \/ a.outCapacity <= 0
    THEN [ status |-> CHROMA_STATUS_OK, error |-> "", totalFound |-> total, written |-> 0 ]
    ELSE IF Min(total, a.outCapacity) < total
    THEN [ status |-> CHROMA_STATUS_BUFFER_TOO_SMALL, error |-> "Output buffer too small.",
           totalFound |-> total, written |-> Min(total, a.outCapacity) ]
    ELSE [ status |-> CHROMA_STATUS_OK, error |-> "", totalFound |-> total,
           written |-> Min(total, a.outCapacity) ]

---------------------------------------------------------------------------
(* Spec: the runtime.  NumThreads threads call SetActiveConfig,              *)
(* ResetConfigToDefault, GetActiveConfig and the three bitmap Locate entry   *)
(* points in any order and interleaving.  The copy of a ColorPatternConfig   *)
(* (the implicit copy constructor and copy assignment) is not atomic: it is  *)
(* modelled in two halves.  committed and the seen field of a thread are     *)
(* history: committed is the configuration last assigned completely, seen    *)
(* the configurations that were committed at some instant of the call.       *)

NumThreads == 2
Threads == 1..NumThreads

\* the first members of a ColorPatternConfig copied from src over dst
CopyFirstHalf(dst, src) ==
    [dst EXCEPT !.centerColor = src.centerColor,
                !.centerMorph = src.centerMorph,
                !.shape = src.shape]

\* the remaining members copied
CopySecondHalf(dst, src) ==
    [dst EXCEPT !.context = src.context, !.debug = src.debug]

\* a variant in which the lock never excludes anybody
CanLockAlways(t) == TRUE

\* std::lock_guard<std::mutex> lock(g_cfgMutex) can be entered
CanLock(t) == g_cfgMutex = 0

\* a thread between calls, before its first call
ThreadIdle ==
    [ pc |-> "idle", op |-> "none", args |-> NoArgs,
      cfg |-> DefaultConstructedConfig, finder |-> DefaultConstructedConfig,
      status |-> CHROMA_STATUS_OK, error |-> "", out |-> NullPtr,
      totalFound |-> 0, written |-> 0, seen |-> {} ]

\* a thread after its call op has returned
Returned(op, outcome) ==
    [ThreadIdle EXCEPT !.op = op, !.status = outcome.status, !.error = outcome.error]

\* a thread inside its call op, at pc, with local configuration cfg
Calling(op, pc, args, cfg) ==
    [ThreadIdle EXCEPT !.op = op, !.pc = pc, !.args = args, !.cfg = cfg,
                       !.seen = {committed}]

\* ChromaConfigV1 arguments: two valid ones that differ from the default in
\* both halves (the first comes from a caller with a longer structure, has
\* flags that are neither 0 nor 1 and an entry beyond its hue-range count
\* that no check looks at; the second has ring radii that only count when the context
\* is enabled, and a negative iteration count, which no check looks at), one
\* that is too short, one that ValidateConfig refuses, one with a hue-range
\* count and one with a channel range out of bounds
DefaultApiConfig == ConvertPatternToApiConfig(BuildDefaultPatternConfig)

ApiConfigs ==
    { [DefaultApiConfig EXCEPT !.minBlobArea = 10, !.contextMinSupportRatio = F(500),
                               !.structSize = SizeofChromaConfigV1 + 8,
                               !.requireContextRing = 2,
                               !.drawRejectedCandidates = 0 - 1,
                               !.centerHueRanges = [@ EXCEPT ![1] = HueRange(10, 20),
                                                            ![2] = HueRange(200, 300)]],
      [DefaultApiConfig EXCEPT !.maxBlobArea = 400, !.requireContextRing = 0,
                               !.ringOuterRadiusPercent = 50,
                               !.centerMorphOpenIterations = 0 - 1],
      [DefaultApiConfig EXCEPT !.structSize = SizeofChromaConfigV1 - 4],
      [DefaultApiConfig EXCEPT !.maxBlobArea = 5],
      [DefaultApiConfig EXCEPT !.centerHueRangeCount = CHROMA_MAX_HUE_RANGES + 1],
      [DefaultApiConfig EXCEPT !.contextSupportValRange = ChannelRange(120, 256)] }

ConfigPointers == { NullPtr } \cup { Ptr(c) : c \in ApiConfigs }

\* bitmap arguments: a bitmap with room for one point, and a refused one
LocateArgs ==
    { BitmapArgs(FALSE, 1, 1, 4, 1, FALSE),
      BitmapArgs(FALSE, 1, 1, 3, 1, FALSE) }

\* the numbers of accepted centres a Find of the runtime reports
CenterCounts == { 0, 2 }

Init ==
    /\ g_activeConfig = BuildDefaultPatternConfig
    /\ g_cfgMutex = 0
    /\ committed = BuildDefaultPatternConfig
    /\ call = CallIdle
    /\ threads = [t \in Threads |-> ThreadIdle]
    /\ val = ValIdle
    /\ mask = MaskIdle
    /\ find = FindIdle

\* a slip: SetActiveConfig(cfg) called whatever BuildConfigFromPointer
\* returned
SetActiveConfigIgnoringStatus(t, config) ==
    /\ threads[t].pc = "idle"
    /\ g_cfgMutex = 0
    /\ LET built == BuildConfigFromPointer(config, DefaultConstructedConfig)
       IN  /\ threads' = [threads EXCEPT ![t] =
                  IF built.status # CHROMA_STATUS_OK
                  THEN Returned("SetActiveConfig", built)
                  ELSE Calling("SetActiveConfig", "set", NoArgs, built.cfg)]
           /\ g_activeConfig' = IF built.status # CHROMA_STATUS_OK THEN built.cfg
                                ELSE g_activeConfig
           /\ committed' = g_activeConfig'
    /\ UNCHANGED <<g_cfgMutex, val, mask, find, call>>

\* ChromaRuntime_SetActiveConfig up to the call of SetActiveConfig: the
\* conversion of the argument; a refused argument returns here
ChromaRuntime_SetActiveConfig(t, config) ==
    /\ threads[t].pc = "idle"
    /\ LET built == BuildConfigFromPointer(config, DefaultConstructedConfig)
       IN  threads' = [threads EXCEPT ![t] =
               IF built.status # CHROMA_STATUS_OK
               THEN Returned("SetActiveConfig", built)
               ELSE Calling("SetActiveConfig", "set", NoArgs, built.cfg)]
    /\ UNCHANGED <<g_activeConfig, g_cfgMutex, committed, val, mask, find, call>>

\* ChromaRuntime_ResetConfigToDefault up to the call of SetActiveConfig
ChromaRuntime_ResetConfigToDefault(t) ==
    /\ threads[t].pc = "idle"
    /\ threads' = [threads EXCEPT ![t] =
           Calling("ResetConfigToDefault", "set", NoArgs, BuildDefaultPatternConfig)]
    /\ UNCHANGED <<g_activeConfig, g_cfgMutex, committed, val, mask, find, call>>

\* SetActiveConfig: the lock is taken and the first members are assigned
SetActiveConfigBegin(t) ==
    /\ threads[t].pc = "set"
    /\ CanLock(t)
    /\ g_cfgMutex' = t
    /\ g_activeConfig' = CopyFirstHalf(g_activeConfig, threads[t].cfg)
    /\ threads' = [threads EXCEPT ![t].pc = "assigning"]
    /\ UNCHANGED <<committed, val, mask, find, call>>

\* SetActiveConfig: the remaining members are assigned, the lock is
\* released and the entry point returns CHROMA_STATUS_OK
SetActiveConfigEnd(t) ==
    /\ threads[t].pc = "assigning"
    /\ g_activeConfig' = CopySecondHalf(g_activeConfig, threads[t].cfg)
    /\ g_cfgMutex' = 0
    /\ committed' = threads[t].cfg
    /\ threads' = [u \in Threads |->
           IF u = t THEN Returned(threads[t].op, Outcome(CHROMA_STATUS_OK, ""))
           ELSE IF threads[u].pc # "idle"
           THEN [threads[u] EXCEPT !.seen = @ \cup {threads[t].cfg}]
           ELSE threads[u]]
    /\ UNCHANGED <<val, mask, find, call>>

\* ChromaRuntime_GetActiveConfig up to the call of GetActiveConfigCopy
ChromaRuntime_GetActiveConfig(t, outConfigNull) ==
    /\ threads[t].pc = "idle"
    /\ threads' = [threads EXCEPT ![t] =
           IF outConfigNull
           THEN Returned("GetActiveConfig",
                         Outcome(CHROMA_STATUS_INVALID_ARGUMENT, "outConfig is null."))
           ELSE Calling("GetActiveConfig", "copy", NoArgs, DefaultConstructedConfig)]
    /\ UNCHANGED <<g_activeConfig, g_cfgMutex, committed, val, mask, find, call>>

\* ChromaRuntime_LocateBitmapBGRAW up to the call of GetActiveConfigCopy
ChromaRuntime_LocateBitmapBGRAW(t, args) ==
    /\ threads[t].pc = "idle"
    /\ threads' = [threads EXCEPT ![t] =
           Calling("LocateBitmapBGRAW", "copy", args, DefaultConstructedConfig)]
    /\ UNCHANGED <<g_activeConfig, g_cfgMutex, committed, val, mask, find, call>>

\* ChromaRuntime_LocateBitmapWithDebugBGRAW (outDebugImage null) up to the
\* call of GetActiveConfigCopy: the arguments are checked first
ChromaRuntime_LocateBitmapWithDebugBGRAW(t, args) ==
    /\ threads[t].pc = "idle"
    /\ threads' = [threads EXCEPT ![t] =
           IF ValidateBitmapArgs(args).status # CHROMA_STATUS_OK
           THEN Returned("LocateBitmapWithDebugBGRAW", ValidateBitmapArgs(args))
           ELSE Calling("LocateBitmapWithDebugBGRAW", "copy", args,
                        DefaultConstructedConfig)]
    /\ UNCHANGED <<g_activeConfig, g_cfgMutex, committed, val, mask, find, call>>

\* a slip: the entry point installing its config argument as the active one
LocateBitmapWithConfigInstalling(t, config, args) ==
    /\ threads[t].pc = "idle"
    /\ g_cfgMutex = 0
    /\ LET built == BuildConfigFromPointer(config, DefaultConstructedConfig)
       IN  /\ threads' = [threads EXCEPT ![t] =
                  IF built.status # CHROMA_STATUS_OK
                  THEN Returned("LocateBitmapWithConfigBGRAW", built)
                  ELSE Calling("LocateBitmapWithConfigBGRAW", "impl", args, built.cfg)]
           /\ g_activeConfig' = IF built.status = CHROMA_STATUS_OK THEN built.cfg
                                ELSE g_activeConfig
           /\ committed' = g_activeConfig'
    /\ UNCHANGED <<g_cfgMutex, val, mask, find, call>>

\* ChromaRuntime_LocateBitmapWithConfigBGRAW up to the call of
\* LocateBitmapImpl: a refused config returns here
ChromaRuntime_LocateBitmapWithConfigBGRAW(t, config, args) ==
    /\ threads[t].pc = "idle"
    /\ LET built == BuildConfigFromPointer(config, DefaultConstructedConfig)
       IN  threads' = [threads EXCEPT ![t] =
               IF built.status # CHROMA_STATUS_OK
               THEN Returned("LocateBitmapWithConfigBGRAW", built)
               ELSE Calling("LocateBitmapWithConfigBGRAW", "impl", args, built.cfg)]
    /\ UNCHANGED <<g_activeConfig, g_cfgMutex, committed, val, mask, find, call>>

\* GetActiveConfigCopy: the lock is taken and the first members are copied
GetActiveConfigCopyBegin(t) ==
    /\ threads[t].pc = "copy"
    /\ CanLock(t)
    /\ g_cfgMutex' = t
    /\ threads' = [threads EXCEPT ![t].pc = "copying",
                                  ![t].cfg = CopyFirstHalf(@, g_activeConfig)]
    /\ UNCHANGED <<g_activeConfig, committed, val, mask, find, call>>

\* a slip: the lock of GetActiveConfigCopy kept by the caller
GetActiveConfigCopyEndKeepingLock(t) ==
    /\ threads[t].pc = "copying"
    /\ threads' = [threads EXCEPT
           ![t].cfg = CopySecondHalf(@, g_activeConfig),
           ![t].pc = IF threads[t].op = "GetActiveConfig" THEN "got"
                     ELSE IF threads[t].op = "LocateBitmapBGRAW" THEN "impl"
                     ELSE "detect"]
    /\ UNCHANGED <<g_activeConfig, g_cfgMutex, committed, val, mask, find, call>>

\* GetActiveConfigCopy: the remaining members are copied and the lock is
\* released; the caller goes on with its copy
GetActiveConfigCopyEnd(t) ==
    /\ threads[t].pc = "copying"
    /\ g_cfgMutex' = 0
    /\ threads' = [threads EXCEPT
           ![t].cfg = CopySecondHalf(@, g_activeConfig),
           ![t].pc = IF threads[t].op = "GetActiveConfig" THEN "got"
                     ELSE IF threads[t].op = "LocateBitmapBGRAW" THEN "impl"
                     ELSE "detect"]
    /\ UNCHANGED <<g_activeConfig, committed, val, mask, find, call>>

\* ChromaRuntime_GetActiveConfig: *outConfig = ConvertPatternToApiConfig(copy)
GetActiveConfigReturn(t) ==
    /\ threads[t].pc = "got"
    /\ threads' = [threads EXCEPT ![t] =
           [Returned("GetActiveConfig", Outcome(CHROMA_STATUS_OK, "")) EXCEPT
               !.out = Ptr(ConvertPatternToApiConfig(threads[t].cfg)),
               !.seen = threads[t].seen]]
    /\ UNCHANGED <<g_activeConfig, g_cfgMutex, committed, val, mask, find, call>>

\* LocateBitmapImpl up to the detection: the argument checks
LocateBitmapImpl(t) ==
    /\ threads[t].pc = "impl"
    /\ threads' = [threads EXCEPT ![t] =
           IF ValidateBitmapArgs(threads[t].args).status # CHROMA_STATUS_OK
           THEN Returned(threads[t].op, ValidateBitmapArgs(threads[t].args))
           ELSE [threads[t] EXCEPT !.pc = "detect"]]
    /\ UNCHANGED <<g_activeConfig, g_cfgMutex, committed, val, mask, find, call>>

\* DetectRunResultFromMat: const ColorPatternFinder finder(cfg)
DetectRunResultFromMat(t) ==
    /\ threads[t].pc = "detect"
    /\ threads' = [threads EXCEPT ![t].pc = "finding", ![t].finder = threads[t].cfg]
    /\ UNCHANGED <<g_activeConfig, g_cfgMutex, committed, val, mask, find, call>>

\* finder.Find(scene) returns total accepted centres; WriteLocateOutputs
FinderFound(t, total) ==
    /\ threads[t].pc = "finding"
    /\ LET written == WriteLocateOutputs(total, threads[t].args)
       IN  threads' = [threads EXCEPT ![t] =
               [Returned(threads[t].op, written) EXCEPT
                   !.totalFound = written.totalFound,
                   !.written = written.written]]
    /\ UNCHANGED <<g_activeConfig, g_cfgMutex, committed, val, mask, find, call>>

\* finder.Find(scene) throws (an OpenCV failure): CHROMA_STATUS_RUNTIME_ERROR
FinderThrew(t) ==
    /\ threads[t].pc = "finding"
    /\ threads' = [threads EXCEPT ![t] =
           Returned(threads[t].op, Outcome(CHROMA_STATUS_RUNTIME_ERROR, "Runtime error."))]
    /\ UNCHANGED <<g_activeConfig, g_cfgMutex, committed, val, mask, find, call>>

Next ==
    \E t \in Threads :
        \/ \E config \in ConfigPointers : ChromaRuntime_SetActiveConfig(t, config)
        \/ ChromaRuntime_ResetConfigToDefault(t)
        \/ SetActiveConfigBegin(t)
        \/ SetActiveConfigEnd(t)
        \/ \E outConfigNull \in BOOLEAN : ChromaRuntime_GetActiveConfig(t, outConfigNull)
        \/ \E args \in LocateArgs : ChromaRuntime_LocateBitmapBGRAW(t, args)
        \/ \E args \in LocateArgs : ChromaRuntime_LocateBitmapWithDebugBGRAW(t, args)
        \/ \E config \in ConfigPointers, args \in LocateArgs :
               ChromaRuntime_LocateBitmapWithConfigBGRAW(t, config, args)
        \/ GetActiveConfigCopyBegin(t)
        \/ GetActiveConfigCopyEnd(t)
        \/ GetActiveConfigReturn(t)
        \/ LocateBitmapImpl(t)
        \/ DetectRunResultFromMat(t)
        \/ \E total \in CenterCounts : FinderFound(t, total)
        \/ FinderThrew(t)

Spec == Init /\ [][Next]_vars

---------------------------------------------------------------------------
(* Properties of the runtime *)

\* the entry points that work on a copy of the active configuration
ReadsActiveConfig(t) ==
    threads[t].op \in {"GetActiveConfig", "LocateBitmapBGRAW", "LocateBitmapWithDebugBGRAW"}

\* thread t is calling DetectRunResultFromMat or is inside Find
Detecting(t) == threads[t].pc \in {"detect", "finding"}

\* C1: in every reachable state of the runtime the active configuration
\* passes ValidateConfig, and so does every configuration that a Locate entry
\* point hands to Find.
C1_OnlyValidConfigsActiveOrUsed ==
    /\ ValidateConfig(g_activeConfig).ok
    /\ \A t \in Threads :
          /\ Detecting(t) => ValidateConfig(threads[t].cfg).ok
          /\ threads[t].pc = "finding" => ValidateConfig(threads[t].finder).ok

\* C1 witness: a SetActiveConfig refused by ValidateConfig has returned while
\* the active configuration, set by an earlier call, is not the default, and
\* another thread is inside Find
C1_Witness ==
    /\ g_activeConfig # BuildDefaultPatternConfig
    /\ \E t, u \in Threads :
          /\ threads[t].pc = "idle"
          /\ threads[t].op = "SetActiveConfig"
          /\ threads[t].status = CHROMA_STATUS_CONFIG_ERROR
          /\ threads[t].error = MaxAreaReason
          /\ threads[u].pc = "finding"

\* the configuration of thread t's call is one that was active during it
WholeConfig(t) ==
    /\ (ReadsActiveConfig(t) /\ threads[t].pc \in {"got", "impl", "detect", "finding"})
           => threads[t].cfg \in threads[t].seen
    /\ (ReadsActiveConfig(t) /\ threads[t].pc = "finding")
           => threads[t].finder \in threads[t].seen
    /\ (threads[t].op = "GetActiveConfig" /\ threads[t].pc = "idle"
            /\ threads[t].status = CHROMA_STATUS_OK)
           => \E c \in threads[t].seen :
                  threads[t].out = Ptr(ConvertPatternToApiConfig(c))

\* C4: under any interleaving, the configuration a Locate call detects with,
\* and the one GetActiveConfig returns, is one whole configuration that was
\* active at some instant of the call, and it does not change while the
\* call's detection runs.
C4_WholeConfigUnchangedDuringDetection ==
    [][\A t \in Threads :
          /\ WholeConfig(t)'
          /\ (Detecting(t) /\ Detecting(t)') => threads'[t].cfg = threads[t].cfg
          /\ (threads[t].pc = "finding" /\ threads'[t].pc = "finding")
                 => threads'[t].finder = threads[t].finder]_vars

\* C4 witness: a thread is inside Find with a configuration that another
\* thread set during the call, and the active configuration has been replaced
\* again since
C4_Witness ==
    \E t \in Threads :
        /\ threads[t].pc = "finding"
        /\ ReadsActiveConfig(t)
        /\ Cardinality(threads[t].seen) >= 2
        /\ threads[t].finder # BuildDefaultPatternConfig
        /\ threads[t].finder # g_activeConfig
        /\ g_cfgMutex = 0

\* thread t takes this step inside a call of the entry point op
StepOf(t, op) ==
    /\ [threads[t] EXCEPT !.seen = {}] # [threads'[t] EXCEPT !.seen = {}]
    /\ \/ threads[t].pc # "idle" /\ threads[t].op = op
       \/ threads[t].pc = "idle" /\ threads'[t].op = op

\* C15: no step of a LocateBitmapWithConfigBGRAW call, from its entry to its
\* return with whatever status, changes the active configuration, so
\* GetActiveConfig returns the same values before and after the call.
C15_LocateWithConfigKeepsActiveConfig ==
    [][\A t \in Threads :
          StepOf(t, "LocateBitmapWithConfigBGRAW")
              => /\ g_activeConfig' = g_activeConfig
                 /\ committed' = committed
                 /\ ConvertPatternToApiConfig(g_activeConfig')
                        = ConvertPatternToApiConfig(g_activeConfig)]_vars

\* C15 witness: a LocateBitmapWithConfigBGRAW call is inside Find with a
\* configuration that is not the active one
C15_Witness ==
    \E t \in Threads :
        /\ threads[t].op = "LocateBitmapWithConfigBGRAW"
        /\ threads[t].pc = "finding"
        /\ threads[t].finder # g_activeConfig
        /\ g_activeConfig = committed
        /\ g_cfgMutex = 0

\* a LocateBitmapWithConfigBGRAW call has returned a refusal of its config
\* while the active configuration is one set by an earlier call
C15_RefusedConfig ==
    \E t \in Threads :
        /\ threads[t].op = "LocateBitmapWithConfigBGRAW"
        /\ threads[t].pc = "idle"
        /\ threads[t].status = CHROMA_STATUS_CONFIG_ERROR
        /\ g_activeConfig # BuildDefaultPatternConfig

---------------------------------------------------------------------------
(* SpecLocate: the Locate entry points taken alone.  One call of an entry    *)
(* point is made on a bitmap, output arguments and the outcome of Find on    *)
(* that bitmap under the active configuration; LocateBitmapBGRAW and         *)
(* LocateBitmapWithDebugBGRAW are called side by side on the same            *)
(* arguments.  call.runs maps each entry point called to its progress, the   *)
(* memory behind its output pointers and whether Find was invoked.           *)

SizeofChromaDebugImageV1 == 40

\* a ChromaPoint
Point(x, y) == [x |-> x, y |-> y]

\* what the caller's memory holds before a call
Stale == [count |-> 5, point |-> Point(0 - 7, 0 - 7)]

\* the memory behind outPoints (when non-null it has room for outCapacity
\* elements, and the caller's memory goes on behind it), outTotalFound and
\* outWritten
StaleMem ==
    [ points |-> <<Stale.point, Stale.point, Stale.point, Stale.point>>,
      totalFound |-> Stale.count, written |-> Stale.count ]

\* a ChromaDebugImageV1 as the caller passes it
DebugImage(structSize, bgraNull, bgraCapacityBytes) ==
    [ structSize |-> structSize, bgraNull |-> bgraNull,
      bgraCapacityBytes |-> bgraCapacityBytes,
      width |-> Stale.count, height |-> Stale.count, strideBytes |-> Stale.count,
      bytesRequired |-> Stale.count, bytesWritten |-> Stale.count ]

\* the arguments of a Locate call: the bitmap and the output pointers
LocateCall(pixelsNull, width, height, strideBytes, outCapacity, pointsNull, totalFoundNull, writtenNull) ==
    [ pixelsNull |-> pixelsNull, width |-> width, height |-> height,
      strideBytes |-> strideBytes, outCapacity |-> outCapacity,
      pointsNull |-> pointsNull, totalFoundNull |-> totalFoundNull,
      writtenNull |-> writtenNull ]

\* if (outTotalFound != nullptr) *outTotalFound = 0; the same for outWritten
ZeroCounts(mem, a) ==
    [mem EXCEPT !.totalFound = IF a.totalFoundNull THEN @ ELSE 0,
                !.written = IF a.writtenNull THEN @ ELSE 0]

\* a slip: the copy loop running over all centres
CopyAllPoints(points, centers, toCopy) ==
    SeqOf(LAMBDA i : IF i <= Len(centers) THEN centers[i] ELSE points[i], Len(points))

\* for (i = 0; i < toCopy; ++i) outPoints[i] = centers[i]
CopyPoints(points, centers, toCopy) ==
    SeqOf(LAMBDA i : IF i <= toCopy THEN centers[i] ELSE points[i], Len(points))

\* WriteLocateOutputs with the memory it writes
StoreLocateOutputs(mem, centers, a) ==
    LET w == WriteLocateOutputs(Len(centers), a)
        countOnly == a.pointsNull \/ a.outCapacity <= 0
    IN  [ status |-> w.status, error |-> w.error,
          mem |-> [mem EXCEPT
              !.totalFound = IF a.totalFoundNull THEN @ ELSE w.totalFound,
              !.written = IF a.writtenNull THEN @ ELSE w.written,
              !.points = IF countOnly THEN @
                         ELSE CopyPoints(@, centers, Min(Len(centers), a.outCapacity))] ]

\* DetectAcceptedCentersFromMat: one ChromaPoint per accepted centre, in order
CentersOf(found) == found.centers

\* a slip: LocateBitmapWithDebugBGRAW losing the centres
NoCenters(found) == <<>>

\* LocateBitmapWithDebugBGRAW: centers.push_back(ChromaPoint{ p.x, p.y })
DebugCentersOf(found) == found.centers

\* BuildSideBySide of the overlay and the mask view of a scene
SideBySide(scene) == [width |-> 2 * scene.width, height |-> scene.height]

\* a variant without the structSize check at the entry
DebugImageNeverRejected(outDebugImage) == FALSE

\* LocateBitmapWithDebugBGRAW: the structSize check at the entry
DebugImageRejected(outDebugImage) ==
    /\ ~outDebugImage.null
    /\ outDebugImage.at.structSize < SizeofChromaDebugImageV1

\* the output fields of a ChromaDebugImageV1 set to 0
ZeroDebugImage(d) ==
    [d EXCEPT !.width = 0, !.height = 0, !.strideBytes = 0,
              !.bytesRequired = 0, !.bytesWritten = 0]

\* WriteDebugImageOutput for a debug view of view.width x view.height pixels
\* (required64 > INT32_MAX is tested by a division: stride64 * height does
\* not fit the integers of the model checker)
WriteDebugImageOutput(view, outDebugImage) ==
    IF outDebugImage.null
    THEN [ status |-> CHROMA_STATUS_OK, error |-> "", debug |-> outDebugImage ]
    ELSE IF outDebugImage.at.structSize < SizeofChromaDebugImageV1
    THEN [ status |-> CHROMA_STATUS_INVALID_ARGUMENT,
           error |-> "ChromaDebugImageV1.structSize is smaller than required.",
           debug |-> outDebugImage ]
    ELSE LET z == ZeroDebugImage(outDebugImage.at)
             stride64 == view.width * 4
         IN  IF \/ view.width < 0 \/ view.height < 0
                \/ stride64 > Int32Max
                \/ (view.height > 0 /\ stride64 > Int32Max \div view.height)
             THEN [ status |-> CHROMA_STATUS_RUNTIME_ERROR,
                    error |-> "Debug image is too large.", debug |-> Ptr(z) ]
             ELSE LET s == [z EXCEPT !.width = view.width, !.height = view.height,
                                     !.strideBytes = stride64,
                                     !.bytesRequired = stride64 * view.height]
                  IN  IF s.bgraNull \/ s.bgraCapacityBytes <= 0
                      THEN [ status |-> CHROMA_STATUS_OK, error |-> "", debug |-> Ptr(s) ]
                      ELSE IF s.bgraCapacityBytes < s.bytesRequired
                      THEN [ status |-> CHROMA_STATUS_BUFFER_TOO_SMALL,
                             error |-> "Debug image buffer too small.", debug |-> Ptr(s) ]
                      ELSE [ status |-> CHROMA_STATUS_OK, error |-> "",
                             debug |-> Ptr([s EXCEPT !.bytesWritten = s.bytesRequired]) ]

\* a slip: the status of WriteDebugImageOutput dropped
DebugStatusOfPointsOnly(pointsStatus, debugStatus) == pointsStatus

\* the status LocateBitmapWithDebugBGRAW returns for the statuses of
\* WriteLocateOutputs and WriteDebugImageOutput
DebugStatus(pointsStatus, debugStatus) ==
    IF pointsStatus # CHROMA_STATUS_OK /\ pointsStatus # CHROMA_STATUS_BUFFER_TOO_SMALL
    THEN pointsStatus
    ELSE IF debugStatus # CHROMA_STATUS_OK /\ debugStatus # CHROMA_STATUS_BUFFER_TOO_SMALL
    THEN debugStatus
    ELSE IF pointsStatus = CHROMA_STATUS_BUFFER_TOO_SMALL
            \/ debugStatus = CHROMA_STATUS_BUFFER_TOO_SMALL
    THEN CHROMA_STATUS_BUFFER_TOO_SMALL
    ELSE CHROMA_STATUS_OK

\* an entry point before its call
RunStart(a) ==
    [ pc |-> "start", status |-> CHROMA_STATUS_OK, error |-> "",
      findInvoked |-> FALSE, args |-> a, mem |-> StaleMem, debug |-> NullPtr ]

\* an entry point returning status before the detection
Refused(run, outcome) ==
    [run EXCEPT !.pc = "done", !.status = outcome.status, !.error = outcome.error]

\* the byte offset from bgraPixels at which row k (0 .. height - 1) of
\* bgraView starts: cv::Mat(height, width, CV_8UC4, data, absStride) has
\* its rows at data + k * absStride, and data is bgraPixels for a positive
\* stride and bgraPixels + lastRowOffset for a negative one
MatRowOffset(a, k) ==
    LET absStride == Abs(a.strideBytes)
        lastRowOffset == absStride * (a.height - 1)
    IN  IF a.strideBytes > 0 THEN k * absStride
        ELSE lastRowOffset + k * absStride

\* LocateBitmapImpl on arguments a, up to the call of
\* DetectAcceptedCentersFromMat
EnterLocateBitmapImpl(run, a) ==
    LET zeroed == [run EXCEPT !.args = a, !.mem = ZeroCounts(run.mem, a)]
    IN  IF ValidateBitmapArgs(a).status # CHROMA_STATUS_OK
        THEN Refused(zeroed, ValidateBitmapArgs(a))
        ELSE [zeroed EXCEPT !.pc = "finding"]

\* the bitmaps: two good ones (top-down and bottom-up), one whose debug image
\* needs 2^31 bytes, and one for each refusal
Bitmaps ==
    { [pixelsNull |-> FALSE, width |-> 2, height |-> 1, strideBytes |-> 8],
      [pixelsNull |-> FALSE, width |-> 2, height |-> 2, strideBytes |-> 0 - 8],
      [pixelsNull |-> FALSE, width |-> 32768, height |-> 8192, strideBytes |-> 131072],
      [pixelsNull |-> TRUE, width |-> 2, height |-> 1, strideBytes |-> 8],
      [pixelsNull |-> FALSE, width |-> 0, height |-> 1, strideBytes |-> 8],
      [pixelsNull |-> FALSE, width |-> 2, height |-> 1, strideBytes |-> 0],
      [pixelsNull |-> FALSE, width |-> 2, height |-> 1, strideBytes |-> 4] }

OutCapacities == { 0 - 1, 0, 1, 3 }

LocateCalls ==
    { LocateCall(b.pixelsNull, b.width, b.height, b.strideBytes, c, pn, tn, wn) :
        b \in Bitmaps, c \in OutCapacities, pn \in BOOLEAN, tn \in BOOLEAN,
        wn \in BOOLEAN }

\* what Find does on the bitmap: it throws, or returns accepted centres
FindOutcomes ==
    { [threw |-> TRUE, centers |-> <<>>],
      [threw |-> FALSE, centers |-> <<>>],
      [threw |-> FALSE, centers |-> <<Point(1, 0)>>],
      [threw |-> FALSE, centers |-> <<Point(1, 0), Point(0, 0)>>] }

\* outDebugImage: null, too short, without a pixel buffer, with a buffer too
\* small for the side-by-side view of a 2x1 bitmap, with one that fits
DebugImages ==
    { NullPtr,
      Ptr(DebugImage(SizeofChromaDebugImageV1 - 4, FALSE, 16)),
      Ptr(DebugImage(SizeofChromaDebugImageV1, TRUE, 0)),
      Ptr(DebugImage(SizeofChromaDebugImageV1, FALSE, 8)),
      Ptr(DebugImage(SizeofChromaDebugImageV1, FALSE, 16)) }

\* the ways the capture of LocateHBitmap and LocateHWND ends before
\* LocateBitmapImpl: the build is not for Windows, or a Windows call fails
CaptureFailures ==
    { "none", "only supported on Windows", "GetObjectW failed for HBITMAP.",
      "GetDC failed.", "GetDIBits failed.", "Failed to query window bounds.",
      "Failed to get window DC.", "CreateCompatibleDC failed.",
      "CreateDIBSection failed.", "Window capture failed." }

\* the entry points called in one behaviour
Scenarios ==
    { {"LocateBitmapBGRAW", "LocateBitmapWithDebugBGRAW"},
      {"LocateBitmapWithConfigBGRAW"}, {"LocateHBitmap"}, {"LocateHWND"} }

InitLocate ==
    /\ g_activeConfig = BuildDefaultPatternConfig
    /\ g_cfgMutex = 0
    /\ committed = BuildDefaultPatternConfig
    /\ threads = <<>>
    /\ val = ValIdle
    /\ mask = MaskIdle
    /\ find = FindIdle
    /\ \E a \in LocateCalls, f \in FindOutcomes, s \in Scenarios :
          call = [ pc |-> "locate", args |-> a, found |-> f,
                   runs |-> [e \in s |-> RunStart(a)] ]

\* entry point e is among those called and is at pc
RunAt(e, pc) == call.pc = "locate" /\ e \in DOMAIN call.runs /\ call.runs[e].pc = pc

\* the step of entry point e that leaves it as run
RunBecomes(e, run) ==
    /\ call' = [call EXCEPT !.runs[e] = run]
    /\ UNCHANGED <<g_activeConfig, g_cfgMutex, committed, threads, val, mask, find>>

\* ChromaRuntime_LocateBitmapBGRAW up to the detection
CallLocateBitmapBGRAW ==
    /\ RunAt("LocateBitmapBGRAW", "start")
    /\ RunBecomes("LocateBitmapBGRAW",
                  EnterLocateBitmapImpl(call.runs["LocateBitmapBGRAW"], call.args))

\* ChromaRuntime_LocateBitmapWithConfigBGRAW up to the detection
CallLocateBitmapWithConfigBGRAW(config) ==
    /\ RunAt("LocateBitmapWithConfigBGRAW", "start")
    /\ LET run == call.runs["LocateBitmapWithConfigBGRAW"]
           built == BuildConfigFromPointer(config, DefaultConstructedConfig)
       IN  RunBecomes("LocateBitmapWithConfigBGRAW",
               IF built.status # CHROMA_STATUS_OK
               THEN Refused(run, built)
               ELSE EnterLocateBitmapImpl(run, call.args))

\* ChromaRuntime_LocateBitmapWithDebugBGRAW up to the detection
CallLocateBitmapWithDebugBGRAW(outDebugImage) ==
    /\ RunAt("LocateBitmapWithDebugBGRAW", "start")
    /\ LET run == [call.runs["LocateBitmapWithDebugBGRAW"] EXCEPT
                      !.mem = ZeroCounts(@, call.args), !.debug = outDebugImage]
           checked == ValidateBitmapArgs(call.args)
       IN  RunBecomes("LocateBitmapWithDebugBGRAW",
               IF DebugImageRejected(outDebugImage)
               THEN Refused(run, Outcome(CHROMA_STATUS_INVALID_ARGUMENT,
                        "ChromaDebugImageV1.structSize is smaller than required."))
               ELSE LET zeroed == IF outDebugImage.null THEN run
                                  ELSE [run EXCEPT !.debug = Ptr(ZeroDebugImage(@.at))]
                    IN  IF checked.status # CHROMA_STATUS_OK
                        THEN Refused(zeroed, checked)
                        ELSE [zeroed EXCEPT !.pc = "finding"])

\* ChromaRuntime_LocateHBitmap up to the detection: the bitmap of the call is
\* the one behind the handle
CallLocateHBitmap(failure) ==
    /\ RunAt("LocateHBitmap", "start")
    /\ failure \in { "none", "only supported on Windows",
                     "GetObjectW failed for HBITMAP.", "GetDC failed.",
                     "GetDIBits failed." }
    /\ LET run == call.runs["LocateHBitmap"]
           a == call.args
       IN  RunBecomes("LocateHBitmap",
               IF failure = "only supported on Windows"
               THEN Refused(run, Outcome(CHROMA_STATUS_RUNTIME_ERROR, failure))
               ELSE IF a.pixelsNull
               THEN Refused(run, Outcome(CHROMA_STATUS_INVALID_ARGUMENT, "hBitmap is null."))
               ELSE IF failure = "GetObjectW failed for HBITMAP."
               THEN Refused(run, Outcome(CHROMA_STATUS_RUNTIME_ERROR, failure))
               ELSE IF a.width <= 0 \/ Abs(a.height) <= 0
               THEN Refused(run, Outcome(CHROMA_STATUS_INVALID_ARGUMENT,
                                         "Invalid HBITMAP dimensions."))
               ELSE IF failure # "none"
               THEN Refused(run, Outcome(CHROMA_STATUS_RUNTIME_ERROR, failure))
               ELSE EnterLocateBitmapImpl(run,
                        [a EXCEPT !.height = Abs(a.height), !.strideBytes = a.width * 4]))

\* ChromaRuntime_LocateHWND up to the detection: the bitmap of the call is
\* the window's
CallLocateHWND(failure) ==
    /\ RunAt("LocateHWND", "start")
    /\ failure \in { "none", "only supported on Windows",
                     "Failed to query window bounds.", "Failed to get window DC.",
                     "CreateCompatibleDC failed.", "CreateDIBSection failed.",
                     "Window capture failed." }
    /\ LET run == call.runs["LocateHWND"]
           a == call.args
       IN  RunBecomes("LocateHWND",
               IF failure = "only supported on Windows"
               THEN Refused(run, Outcome(CHROMA_STATUS_RUNTIME_ERROR, failure))
               ELSE IF a.pixelsNull
               THEN Refused(run, Outcome(CHROMA_STATUS_INVALID_ARGUMENT, "Invalid HWND."))
               ELSE IF failure = "Failed to query window bounds."
               THEN Refused(run, Outcome(CHROMA_STATUS_RUNTIME_ERROR, failure))
               ELSE IF a.width <= 0 \/ a.height <= 0
               THEN Refused(run, Outcome(CHROMA_STATUS_INVALID_ARGUMENT,
                                         "Window bounds are empty."))
               ELSE IF failure # "none"
               THEN Refused(run, Outcome(CHROMA_STATUS_RUNTIME_ERROR, failure))
               ELSE EnterLocateBitmapImpl(run, [a EXCEPT !.strideBytes = a.width * 4]))

\* LocateBitmapImpl from DetectAcceptedCentersFromMat on: Find runs, and
\* WriteLocateOutputs if it returned
ReturnFromLocateBitmapImpl(e) ==
    /\ e # "LocateBitmapWithDebugBGRAW"
    /\ RunAt(e, "finding")
    /\ LET run == [call.runs[e] EXCEPT !.pc = "done", !.findInvoked = TRUE]
           w == StoreLocateOutputs(run.mem, CentersOf(call.found), run.args)
       IN  RunBecomes(e,
               IF call.found.threw
               THEN [run EXCEPT !.status = CHROMA_STATUS_RUNTIME_ERROR,
                                !.error = "Runtime error."]
               ELSE [run EXCEPT !.status = w.status, !.error = w.error, !.mem = w.mem])

\* LocateBitmapWithDebugBGRAW from DetectRunResultFromMat on: Find runs, and
\* WriteLocateOutputs and WriteDebugImageOutput if it returned
ReturnFromLocateBitmapWithDebug ==
    /\ RunAt("LocateBitmapWithDebugBGRAW", "finding")
    /\ LET run == [call.runs["LocateBitmapWithDebugBGRAW"] EXCEPT
                      !.pc = "done", !.findInvoked = TRUE]
           w == StoreLocateOutputs(run.mem, DebugCentersOf(call.found), run.args)
           d == WriteDebugImageOutput(SideBySide(run.args), run.debug)
       IN  RunBecomes("LocateBitmapWithDebugBGRAW",
               IF call.found.threw
               THEN [run EXCEPT !.status = CHROMA_STATUS_RUNTIME_ERROR,
                                !.error = "Runtime error."]
               ELSE [run EXCEPT !.status = DebugStatus(w.status, d.status),
                                !.error = IF d.error # "" THEN d.error ELSE w.error,
                                !.mem = w.mem, !.debug = d.debug])

NextLocate ==
    \/ CallLocateBitmapBGRAW
    \/ \E config \in ConfigPointers : CallLocateBitmapWithConfigBGRAW(config)
    \/ \E outDebugImage \in DebugImages : CallLocateBitmapWithDebugBGRAW(outDebugImage)
    \/ \E failure \in CaptureFailures : CallLocateHBitmap(failure)
    \/ \E failure \in CaptureFailures : CallLocateHWND(failure)
    \/ \E e \in DOMAIN call.runs : ReturnFromLocateBitmapImpl(e)
    \/ ReturnFromLocateBitmapWithDebug

SpecLocate == InitLocate /\ [][NextLocate]_vars

---------------------------------------------------------------------------
(* Properties of the Locate entry points *)

\* the entry points of the behaviour that have returned
Returns == IF call.pc = "locate"
           THEN { e \in DOMAIN call.runs : call.runs[e].pc = "done" }
           ELSE {}

\* the number of points a call with arguments a is to copy out of total
ToCopy(a, total) ==
    IF ~a.pointsNull /\ a.outCapacity > 0 THEN Min(total, a.outCapacity) ELSE 0

\* C16: on every Locate call whose detection succeeds, *outTotalFound (when
\* non-null) is the number of accepted detections, *outWritten (when
\* non-null) is the number of points copied, which is min(total, outCapacity)
\* when outPoints is non-null and outCapacity > 0 and 0 otherwise; the points
\* copied are the first ones of the accepted centres in their order, and no
\* element of outPoints at an index >= outCapacity is written.
C16_LocateOutputsOnSuccess ==
    \A e \in Returns :
        LET run == call.runs[e]
            a == run.args
            centers == call.found.centers
            n == ToCopy(a, Len(centers))
        IN  (run.findInvoked /\ ~call.found.threw) =>
                /\ ~a.totalFoundNull => run.mem.totalFound = Len(centers)
                /\ ~a.writtenNull => run.mem.written = n
                /\ \A i \in 1..Len(run.mem.points) :
                      run.mem.points[i] = IF i <= n THEN centers[i] ELSE Stale.point
                /\ \A i \in 1..Len(run.mem.points) :
                      i > a.outCapacity => run.mem.points[i] = Stale.point

\* C16 witness: two centres were accepted and the call had room for one: the
\* first centre was copied, the second was not
C16_Witness ==
    \E e \in Returns :
        LET run == call.runs[e]
        IN  /\ run.findInvoked
            /\ run.status = CHROMA_STATUS_BUFFER_TOO_SMALL
            /\ Len(call.found.centers) = 2
            /\ run.args.outCapacity = 1
            /\ run.mem.totalFound = 2
            /\ run.mem.written = 1
            /\ run.mem.points[1] = call.found.centers[1]
            /\ run.mem.points[2] = Stale.point

\* both LocateBitmapBGRAW and LocateBitmapWithDebugBGRAW have returned
BothReturned == {"LocateBitmapBGRAW", "LocateBitmapWithDebugBGRAW"} \subseteq Returns

C19_RefusalsBeforeFind ==
    \A e \in Returns :
        call.runs[e].status \in {CHROMA_STATUS_INVALID_ARGUMENT, CHROMA_STATUS_CONFIG_ERROR}
            => ~call.runs[e].findInvoked

\* C19 witness: LocateBitmapWithDebugBGRAW refused a ChromaDebugImageV1 that
\* is too short, on a bitmap that LocateBitmapBGRAW detected on
C19_Witness ==
    /\ BothReturned
    /\ call.runs["LocateBitmapBGRAW"].findInvoked
    /\ call.runs["LocateBitmapWithDebugBGRAW"].status = CHROMA_STATUS_INVALID_ARGUMENT
    /\ ~call.runs["LocateBitmapWithDebugBGRAW"].findInvoked
    /\ DebugImageRejected(call.runs["LocateBitmapWithDebugBGRAW"].debug)

\* C20 as stated: a Locate call that returns RUNTIME_ERROR has written no
\* point to outPoints, and *outTotalFound and *outWritten (when non-null)
\* are 0.
C20_RuntimeErrorExposesNothing ==
    \A e \in Returns :
        LET run == call.runs[e]
        IN  run.status = CHROMA_STATUS_RUNTIME_ERROR =>
                /\ run.mem.points = StaleMem.points
                /\ ~run.args.totalFoundNull => run.mem.totalFound = 0
                /\ ~run.args.writtenNull => run.mem.written = 0

\* LocateBitmapWithDebugBGRAW has returned RUNTIME_ERROR ("Debug image is too
\* large.") after WriteLocateOutputs wrote the counts and a point
C20_PointsWrittenThenRuntimeError ==
    \E e \in Returns :
        LET run == call.runs[e]
        IN  /\ run.status = CHROMA_STATUS_RUNTIME_ERROR
            /\ run.error = "Debug image is too large."
            /\ run.findInvoked
            /\ run.mem.totalFound = 2
            /\ run.mem.written = 1
            /\ run.mem.points[1] = call.found.centers[1]

\* LocateHBitmap or LocateHWND has returned RUNTIME_ERROR from its capture
\* with *outTotalFound and *outWritten left as the caller had them
C20_CountsStaleOnCaptureFailure ==
    \E e \in Returns :
        LET run == call.runs[e]
        IN  /\ run.status = CHROMA_STATUS_RUNTIME_ERROR
            /\ ~run.findInvoked
            /\ ~run.args.totalFoundNull
            /\ ~run.args.writtenNull
            /\ run.mem.totalFound = Stale.count
            /\ run.mem.written = Stale.count

---------------------------------------------------------------------------
(* SpecRepeat: detection calls one after another in one process.  Each call  *)
(* of LocateBitmapBGRAW detects on a frame with the configuration active at  *)
(* its entry; between calls the active configuration may be replaced.  The   *)
(* find record is what the previous call left behind when the next call      *)
(* begins.  call is history: the number of calls begun, the first call that  *)
(* finished and the call before the current one.                             *)

MaxCalls == 3

\* the configurations set active: the default one, and one without the
\* context check
RepeatConfigs ==
    { BuildDefaultPatternConfig, [FindBase EXCEPT !.context.enabled = FALSE] }

\* the frames detected on: a centre between support pixels, a centre at the
\* border, and the empty frame
RepeatFrames ==
    { <<SupportPixel, CenterPixel, CenterPixel, SupportPixel>>,
      <<CenterPixel, BackgroundPixel, BackgroundPixel, BackgroundPixel>>,
      <<>> }

\* no call has finished yet
NoRun == [none |-> TRUE]

\* what the call that find holds was given and what it returned: on a throw
\* the caller gets RUNTIME_ERROR or INVALID_ARGUMENT with zero counts
RunSummary ==
    LET threw == find.pc = "threw"
        dets == find.result.detections
    IN  [ none |-> FALSE, cfg |-> find.cfg, hsv |-> find.hsv,
          contours |-> IF threw THEN <<>> ELSE find.contours,
          threw |-> threw,
          rawCandidateCount |-> IF threw THEN 0 ELSE find.result.rawCandidateCount,
          acceptedCount |-> IF threw THEN 0 ELSE find.result.acceptedCount,
          acceptedCentersPx |-> IF threw THEN <<>> ELSE find.result.acceptedCentersPx,
          ties |-> ~threw /\ \E i, j \in 1..Len(dets) :
                      /\ i < j
                      /\ ~DetectionBefore(dets[i], dets[j])
                      /\ ~DetectionBefore(dets[j], dets[i]) ]

\* find is between calls
BetweenCalls == find.pc \in {"idle", "done", "threw"}

InitRepeat ==
    /\ g_activeConfig = BuildDefaultPatternConfig
    /\ g_cfgMutex = 0
    /\ committed = BuildDefaultPatternConfig
    /\ threads = <<>>
    /\ val = ValIdle
    /\ mask = MaskIdle
    /\ find = FindIdle
    /\ call = [pc |-> "repeat", n |-> 0, first |-> NoRun, prev |-> NoRun]

\* ChromaRuntime_SetActiveConfig or ChromaRuntime_ResetConfigToDefault
\* between two calls
RepeatSetActiveConfig(cfg) ==
    /\ call.pc = "repeat"
    /\ BetweenCalls
    /\ cfg # g_activeConfig
    /\ g_activeConfig' = cfg
    /\ committed' = cfg
    /\ UNCHANGED <<g_cfgMutex, threads, val, mask, find, call>>

\* ChromaRuntime_LocateBitmapBGRAW up to finder.Find(scene): the copy of the
\* active configuration and the scene; everything else in find is left over
RepeatLocate(scene) ==
    /\ call.pc = "repeat"
    /\ BetweenCalls
    /\ call.n < MaxCalls
    /\ find' = [find EXCEPT !.pc = "start", !.cfg = g_activeConfig, !.hsv = scene]
    /\ call' = [call EXCEPT
          !.n = @ + 1,
          !.first = IF call.first.none /\ find.pc # "idle" THEN RunSummary ELSE @,
          !.prev = IF find.pc # "idle" THEN RunSummary ELSE @]
    /\ UNCHANGED <<g_activeConfig, g_cfgMutex, committed, threads, val, mask>>

NextRepeat ==
    \/ \E cfg \in RepeatConfigs : RepeatSetActiveConfig(cfg)
    \/ \E scene \in RepeatFrames : RepeatLocate(scene)
    \/ FindThrow
    \/ FindMasks
    \/ FindSkipContour
    \/ FindCandidate
    \/ FindSort
    \/ FindAggregate

SpecRepeat == InitRepeat /\ [][NextRepeat]_vars

\* the call that find holds has finished and was given what the first call
\* was given: the configuration, the frame and so the contours
SameAsFirst ==
    /\ call.pc = "repeat"
    /\ find.pc \in {"done", "threw"}
    /\ ~call.first.none
    /\ RunSummary.cfg = call.first.cfg
    /\ RunSummary.hsv = call.first.hsv
    /\ RunSummary.contours = call.first.contours

\* the elements of a sequence
Elements(s) == { s[k] : k \in 1..Len(s) }

\* C18: a detection call given the same frame and configuration as an
\* earlier one returns the same status, the same counts and the same
\* accepted points (in the same order unless the comparator leaves two candidates unordered),
\* whatever calls were made before or between the two.
C18_SameInputsSameOutputs ==
    SameAsFirst =>
        /\ RunSummary.threw = call.first.threw
        /\ RunSummary.rawCandidateCount = call.first.rawCandidateCount
        /\ RunSummary.acceptedCount = call.first.acceptedCount
        /\ Elements(RunSummary.acceptedCentersPx) = Elements(call.first.acceptedCentersPx)
        /\ ~RunSummary.ties => RunSummary.acceptedCentersPx = call.first.acceptedCentersPx

\* C18 witness: the third call repeats the first and accepts a centre, after a
\* call under another active configuration that accepted nothing
C18_Witness ==
    /\ SameAsFirst
    /\ call.n = 3
    /\ ~call.prev.none
    /\ call.prev.cfg # find.cfg
    /\ call.prev.acceptedCount = 0
    /\ RunSummary.acceptedCount >= 1
    /\ RunSummary.acceptedCentersPx = call.first.acceptedCentersPx

---------------------------------------------------------------------------
(* Properties of the context check and the score *)

\* the pixels of the frame in the ring of detection d: farther from its
\* centre than the inner radius and no farther than the outer radius
RingPixels(d) ==
    LET radius == ContourOf(d).radius
    IN  { p \in 1..Len(find.centerMask) :
            /\ Abs(p - d.centerPx) > RingInner(find.cfg, radius)
            /\ Abs(p - d.centerPx) <= RingOuter(find.cfg, radius) }

\* the pixels of the exclusion mask
ExcludedPixels == { p \in 1..Len(find.excludeMask) : find.excludeMask[p] # 0 }

\* the valid annulus of detection d
ValidAnnulus(d) == RingPixels(d) \ ExcludedPixels

\* the support pixels in the valid annulus of detection d
SupportInAnnulus(d) == { p \in ValidAnnulus(d) : find.supportMask[p] # 0 }

\* C21: with context enabled, the valid annulus of a candidate is its ring
\* clipped to the frame without the pixels of the exclusion mask;
\* ringSupportRatio is the number of support pixels in the valid annulus
\* divided by the number of its pixels, clamped to [0,1], and 0 when the
\* valid annulus is empty; an excluded pixel counts neither as support nor as
\* valid; passesContext is ringSupportRatio >= minSupportRatio.
C21_RingSupportRatioOverValidAnnulus ==
    (find.pc = "done" /\ find.cfg.context.enabled) =>
        \A k \in 1..Len(Detections) :
            LET d == Detections[k]
                valid == Cardinality(ValidAnnulus(d))
                support == Cardinality(SupportInAnnulus(d))
                ratio == IF valid = 0 THEN 0
                         ELSE Min(1000, (support * 1000) \div valid)
            IN  /\ d.metrics.ringSupportRatio = ratio
                /\ d.metrics.passesContext
                       = FGe(F(ratio), find.cfg.context.minSupportRatio)

\* C21 witness: a candidate whose ring holds an excluded pixel, which is also
\* bright enough to be support, and one support pixel that is not excluded:
\* the ratio is 1
C21_Witness ==
    /\ find.pc = "done"
    /\ find.cfg.context.enabled
    /\ \E k \in 1..Len(Detections) :
          LET d == Detections[k]
          IN  /\ RingPixels(d) \cap ExcludedPixels # {}
              /\ \E p \in RingPixels(d) \cap ExcludedPixels : find.supportMask[p] # 0
              /\ Cardinality(ValidAnnulus(d)) = 1
              /\ d.metrics.ringSupportRatio = 1000
              /\ d.metrics.passesContext

\* a candidate half of whose valid annulus is support
C21_HalfSupported ==
    /\ find.pc = "done"
    /\ find.cfg.context.enabled
    /\ \E k \in 1..Len(Detections) :
          /\ Cardinality(ValidAnnulus(Detections[k])) = 2
          /\ Detections[k].metrics.ringSupportRatio = 500

\* a candidate whose valid annulus is empty because its ring is excluded
C21_EmptyAnnulus ==
    /\ find.pc = "done"
    /\ find.cfg.context.enabled
    /\ \E k \in 1..Len(Detections) :
          /\ RingPixels(Detections[k]) # {}
          /\ ValidAnnulus(Detections[k]) = {}
          /\ Detections[k].metrics.ringSupportRatio = 0

\* 0.55 * circularity + 0.45 * centerFillRatio of detection d, in thousandths
ShapeScore(d) ==
    (550 * d.metrics.circularity + 450 * d.metrics.centerFillRatio) \div 1000

\* the configurations that differ from the current one in the shape filter
\* or the morphology only
OtherShapeFilters ==
    { c \in FindConfigs : c.context = find.cfg.context /\ c.shape # find.cfg.shape }

\* C24: the score of every candidate is clamp01(0.60 * shapeScore + 0.40 *
\* ringSupportRatio) when context is enabled and clamp01(shapeScore) when it
\* is disabled, with shapeScore = 0.55 * circularity + 0.45 *
\* centerFillRatio; it lies in [0,1] and is the same under another shape
\* filter, whatever the pass flags and the area bounds are.
C24_ScoreFormula ==
    find.pc = "done" =>
        \A k \in 1..Len(Detections) :
            LET d == Detections[k]
                mixed == (600 * ShapeScore(d) + 400 * d.metrics.ringSupportRatio) \div 1000
                expected == IF find.cfg.context.enabled THEN mixed ELSE ShapeScore(d)
            IN  /\ d.metrics.score = Max(0, Min(1000, expected))
                /\ d.metrics.score >= 0
                /\ d.metrics.score <= 1000
                /\ \A c \in OtherShapeFilters :
                      Candidate(c, ContourOf(d), Len(find.centerMask),
                                find.supportMask, find.excludeMask).metrics.score
                          = d.metrics.score

\* C24 witness: with context enabled, a candidate with no ring support that
\* fails the area filter has a score strictly between 0 and 1, and passes
\* the area filter of another configuration
C24_Witness ==
    /\ find.pc = "done"
    /\ find.cfg.context.enabled
    /\ \E k \in 1..Len(Detections) :
          LET d == Detections[k]
          IN  /\ ~d.metrics.passesArea
              /\ d.metrics.ringSupportRatio = 0
              /\ d.metrics.score > 0
              /\ d.metrics.score < ShapeScore(d)
              /\ \E c \in OtherShapeFilters :
                    Candidate(c, ContourOf(d), Len(find.centerMask),
                              find.supportMask, find.excludeMask).metrics.passesArea

\* the contours of positive area among the first k
RECURSIVE PositiveAreaCount(_, _)
PositiveAreaCount(contours, k) ==
    IF k = 0 THEN 0
    ELSE PositiveAreaCount(contours, k - 1) + (IF contours[k].area > 0 THEN 1 ELSE 0)

\* C26: contours whose area is <= 0 are skipped before any metric is
\* computed: every detection of a run has areaPx > 0 and there is one
\* detection for each contour of positive area, while rawCandidateCount
\* counts every contour, so acceptedCount <= number of detections <=
\* rawCandidateCount
C26_ContoursWithoutAreaSkipped ==
    /\ find.pc \in {"loop", "sorted", "done"} =>
          /\ \A k \in 1..Len(Detections) : Detections[k].metrics.areaPx > 0
          /\ find.result.rawCandidateCount = Len(find.contours)
          /\ Len(Detections) = PositiveAreaCount(find.contours, find.i - 1)
          /\ Len(Detections) <= find.result.rawCandidateCount
    /\ find.pc = "done" =>
          /\ find.result.acceptedCount <= Len(Detections)
          /\ Len(Detections) = PositiveAreaCount(find.contours, Len(find.contours))

\* a run with a contour without area next to an accepted one
C26_Witness ==
    /\ find.pc = "done"
    /\ \E k \in 1..Len(find.contours) : find.contours[k].area <= 0
    /\ find.result.rawCandidateCount = 2
    /\ Len(Detections) = 1
    /\ find.result.acceptedCount = 1

---------------------------------------------------------------------------
(* Properties of the lock of the active configuration *)

\* thread t is inside the locked part of GetActiveConfigCopy or SetActiveConfig
InsideLock(t) == threads[t].pc \in {"copying", "assigning"}

\* thread t is about to take the lock
AtLock(t) == threads[t].pc \in {"copy", "set"}

\* C22: g_cfgMutex is held only while the active configuration is copied out
\* or assigned, never while a configuration is converted or validated or
\* while detection runs; a thread about to copy or assign can take the lock
\* whenever no other thread is inside such a copy or assignment, whatever
\* detections are running, and the holder of the lock can always go on to
\* release it, so no interleaving deadlocks.
C22_LockHeldOnlyForCopyOrAssignment ==
    /\ g_cfgMutex # 0 => InsideLock(g_cfgMutex)
    /\ \A t \in Threads :
          /\ InsideLock(t) => g_cfgMutex = t
          /\ InsideLock(t) => ENABLED (SetActiveConfigEnd(t) \/ GetActiveConfigCopyEnd(t))
          /\ (AtLock(t) /\ \A u \in Threads \ {t} : ~InsideLock(u))
                 => ENABLED (SetActiveConfigBegin(t) \/ GetActiveConfigCopyBegin(t))

\* C22 witness: a thread is assigning the active configuration under the lock
\* while another thread is inside Find
C22_Witness ==
    \E t, u \in Threads :
        /\ threads[t].pc = "finding"
        /\ threads[u].pc = "assigning"
        /\ g_cfgMutex = u

---------------------------------------------------------------------------
(* Properties of the configurations the runtime detects with *)

\* the three iteration counts of cfg are non-negative
IterationCountsNonNegative(cfg) ==
    /\ cfg.centerMorph.openIterations >= 0
    /\ cfg.centerMorph.closeIterations >= 0
    /\ cfg.centerMorph.dilateIterations >= 0

\* C23 as stated: the active configuration, and every configuration a Locate
\* entry point hands to Find, has non-negative iteration counts for opening,
\* closing and dilation.
C23_IterationCountsNonNegative ==
    /\ g_cfgMutex = 0 => IterationCountsNonNegative(g_activeConfig)
    /\ \A t \in Threads :
          threads[t].pc = "finding" => IterationCountsNonNegative(threads[t].finder)

\* a LocateBitmapBGRAW call is inside Find with openIterations = -1, which an
\* earlier SetActiveConfig accepted
C23_NegativeCountInDetection ==
    \E t \in Threads :
        /\ threads[t].pc = "finding"
        /\ threads[t].op = "LocateBitmapBGRAW"
        /\ threads[t].finder.centerMorph.openIterations = 0 - 1
        /\ ValidateConfig(threads[t].finder).ok

---------------------------------------------------------------------------
(* The annulus radii of Find's context check, over the radii a contour can
   have and the radius percents ValidateConfig lets through               *)

\* enclosing-circle radii in thousandths of a pixel: from a point to a
\* contour of a large frame
RingRadiusInputs == { 0, 400, 1400, 5100, 15000, 150000, 400000, 2000000, 2147000 }

\* <<innerRadiusPercent, outerRadiusPercent>>; ValidateConfig has no upper
\* limit for either
RingPercentInputs ==
    { <<105, 225>>, <<100, 101>>, <<1, 2>>, <<105, Int32Max>>,
      <<Int32Max - 1, Int32Max>>, <<50000, 2000000000>> }

RingConfig(percents) ==
    [BuildDefaultPatternConfig EXCEPT !.context.innerRadiusPercent = percents[1],
                                      !.context.outerRadiusPercent = percents[2]]

InitRing ==
    /\ g_activeConfig = BuildDefaultPatternConfig
    /\ g_cfgMutex = 0
    /\ committed = BuildDefaultPatternConfig
    /\ threads = <<>>
    /\ val = ValIdle
    /\ mask = MaskIdle
    /\ find = FindIdle
    /\ \E radius \in RingRadiusInputs, percents \in RingPercentInputs, build \in Builds :
          /\ ValidateConfig(RingConfig(percents)).ok
          /\ call = [ pc |-> "ring", cfg |-> RingConfig(percents), radius |-> radius,
                      build |-> build, done |-> FALSE, inner |-> 0, outer |-> 0 ]

\* the two lines of Find that compute inner and outer
ComputeRingRadii ==
    /\ call.pc = "ring"
    /\ ~call.done
    /\ call' = [call EXCEPT
          !.done = TRUE,
          !.inner = RingRadii(call.cfg, call.radius, call.build).inner,
          !.outer = RingRadii(call.cfg, call.radius, call.build).outer]
    /\ UNCHANGED <<g_activeConfig, g_cfgMutex, committed, threads, val, mask, find>>

NextRing == ComputeRingRadii

SpecRing == InitRing /\ [][NextRing]_vars

\* round(radius * percent / 100) as a number, where the model's integers
\* hold it
RoundedScaled(radius, percent) == ScaledRadius(radius, percent).v
Representable(radius, percent) == ScaledRadius(radius, percent).fits

\* C25: for every candidate radius >= 0 and every validated context
\* configuration the radii Find computes are inner = max(1, round(radius *
\* innerPercent / 100)) >= 1 and outer = max(inner + 1, round(radius *
\* outerPercent / 100)) >= inner + 1.  A rounded value beyond the range of
\* int is no value inner or outer can have.
C25_RingRadiiAreRoundedScaledRadii ==
    (call.pc = "ring" /\ call.done) =>
        LET ctx == call.cfg.context
        IN  /\ Representable(call.radius, ctx.innerRadiusPercent)
            /\ Representable(call.radius, ctx.outerRadiusPercent)
            /\ call.inner = Max(1, RoundedScaled(call.radius, ctx.innerRadiusPercent))
            /\ call.outer = Max(call.inner + 1,
                                RoundedScaled(call.radius, ctx.outerRadiusPercent))
            /\ call.inner >= 1
            /\ call.outer >= call.inner + 1

\* C25, the part the code keeps: the ring is never degenerate
C25_RingNeverDegenerate ==
    (call.pc = "ring" /\ call.done) => (call.outer > call.inner /\ call.inner >= 1)

\* C25, where it holds: both scaled radii are in the range of int
C25_RoundedWhereRepresentable ==
    (/\ call.pc = "ring" /\ call.done
     /\ Representable(call.radius, call.cfg.context.innerRadiusPercent)
     /\ Representable(call.radius, call.cfg.context.outerRadiusPercent)) =>
        /\ call.inner = Max(1, RoundedScaled(call.radius, call.cfg.context.innerRadiusPercent))
        /\ call.outer = Max(call.inner + 1,
                            RoundedScaled(call.radius, call.cfg.context.outerRadiusPercent))

\* the two scaled radii round to the same value and the ring is still there
C25_EqualScaledRadii ==
    /\ call.pc = "ring" /\ call.done
    /\ RoundedScaled(call.radius, call.cfg.context.innerRadiusPercent)
         = RoundedScaled(call.radius, call.cfg.context.outerRadiusPercent)
    /\ call.outer = call.inner + 1

\* a validated configuration whose scaled outer radius is beyond int: outer
\* is inner + 1 instead of the scaled radius
C25_ScaledRadiusBeyondInt ==
    /\ call.pc = "ring" /\ call.done
    /\ ValidateConfig(call.cfg).ok
    /\ ~Representable(call.radius, call.cfg.context.outerRadiusPercent)
    /\ call.outer = call.inner + 1

---------------------------------------------------------------------------
(* Properties of the rows the Locate entry points read *)

\* the runs whose bitmap passed the checks: bgraView is built and read
ReadsBitmap(e) == call.runs[e].pc = "finding" \/ call.runs[e].findInvoked

\* C27: for every Locate call that passes argument validation, with
\* positive or negative strideBytes, every row read starts at a byte offset
\* from bgraPixels between 0 and |strideBytes| * (height - 1).  The offsets
\* grow with the row, so the first and the last row bound the others.
C27_RowsInsideBuffer ==
    call.pc = "locate" =>
        \A e \in DOMAIN call.runs :
            ReadsBitmap(e) =>
                LET a == call.runs[e].args
                IN  \A k \in {0, a.height - 1} :
                        /\ MatRowOffset(a, k) >= 0
                        /\ MatRowOffset(a, k) <= Abs(a.strideBytes) * (a.height - 1)

\* C27, where it holds: positive strides and bitmaps of one row
C27_RowsInsideBufferTopDown ==
    call.pc = "locate" =>
        \A e \in DOMAIN call.runs :
            (ReadsBitmap(e) /\ (call.runs[e].args.strideBytes > 0 \/ call.runs[e].args.height = 1)) =>
                LET a == call.runs[e].args
                IN  \A k \in {0, a.height - 1} :
                        /\ MatRowOffset(a, k) >= 0
                        /\ MatRowOffset(a, k) <= Abs(a.strideBytes) * (a.height - 1)

\* a bottom-up bitmap of two rows: the second row read starts at twice the
\* offset of the buffer's last row, which is the end of the buffer
C27_RowBeyondBuffer ==
    /\ call.pc = "locate"
    /\ \E e \in DOMAIN call.runs \cap {"LocateBitmapBGRAW", "LocateBitmapWithDebugBGRAW"} :
          LET a == call.runs[e].args
          IN  /\ call.runs[e].findInvoked
              /\ a.strideBytes < 0
              /\ a.height = 2
              /\ MatRowOffset(a, 1) = Abs(a.strideBytes) * a.height

---------------------------------------------------------------------------
(* Properties of a refused ChromaRuntime_SetActiveConfig *)

\* the step of thread t is a ChromaRuntime_SetActiveConfig call returning a
\* status other than CHROMA_STATUS_OK (a call that repeats the outcome the
\* thread already holds changes nothing at all)
SetActiveConfigRefused(t) ==
    /\ threads[t].pc = "idle"
    /\ threads'[t].pc = "idle"
    /\ threads'[t].op = "SetActiveConfig"
    /\ threads'[t].status # CHROMA_STATUS_OK
    /\ threads'[t] # threads[t]

\* C28: a SetActiveConfig call that returns a status other than OK leaves
\* the active configuration, and what GetActiveConfig would return of it,
\* exactly as it was before the call
C28_RefusedSetKeepsActiveConfig ==
    [][\A t \in Threads :
          SetActiveConfigRefused(t)
              => /\ g_activeConfig' = g_activeConfig
                 /\ committed' = committed
                 /\ ConvertPatternToApiConfig(g_activeConfig')
                        = ConvertPatternToApiConfig(g_activeConfig)]_vars

\* a SetActiveConfig call has returned CHROMA_STATUS_CONFIG_ERROR, another
\* has returned CHROMA_STATUS_INVALID_ARGUMENT, and the active configuration
\* is one set by an earlier call
C28_Witness ==
    /\ g_activeConfig # BuildDefaultPatternConfig
    /\ g_activeConfig = committed
    /\ g_cfgMutex = 0
    /\ \E t \in Threads :
          /\ threads[t].pc = "idle"
          /\ threads[t].op = "SetActiveConfig"
          /\ threads[t].status = CHROMA_STATUS_CONFIG_ERROR
    /\ \E t \in Threads :
          /\ threads[t].pc = "idle"
          /\ threads[t].op = "SetActiveConfig"
          /\ threads[t].status = CHROMA_STATUS_INVALID_ARGUMENT

---------------------------------------------------------------------------
(* Properties of ChromaRuntime_GetActiveConfig after a
   ChromaRuntime_SetActiveConfig *)

\* a flag of ChromaConfigV1 as 0 or 1
Normalised(flag) == IF flag # 0 THEN 1 ELSE 0

\* the fields of a ChromaConfigV1 that a configuration is made of: the
\* counts, the first count entries of each hue array and the scalar fields,
\* with the two flags as 0 or 1
ConfigFields(c) ==
    [ centerHueRangeCount |-> c.centerHueRangeCount,
      centerHueRanges |-> SubSeq(c.centerHueRanges, 1, c.centerHueRangeCount),
      centerSatRange |-> c.centerSatRange,
      centerValRange |-> c.centerValRange,
      centerMorphOpenIterations |-> c.centerMorphOpenIterations,
      centerMorphCloseIterations |-> c.centerMorphCloseIterations,
      centerDilateIterations |-> c.centerDilateIterations,
      minBlobArea |-> c.minBlobArea,
      maxBlobArea |-> c.maxBlobArea,
      minCircularity |-> c.minCircularity,
      minCenterFillRatio |-> c.minCenterFillRatio,
      requireContextRing |-> Normalised(c.requireContextRing),
      ringInnerRadiusPercent |-> c.ringInnerRadiusPercent,
      ringOuterRadiusPercent |-> c.ringOuterRadiusPercent,
      contextSupportSatRange |-> c.contextSupportSatRange,
      contextSupportValRange |-> c.contextSupportValRange,
      contextExcludeHueRangeCount |-> c.contextExcludeHueRangeCount,
      contextExcludeHueRanges |->
          SubSeq(c.contextExcludeHueRanges, 1, c.contextExcludeHueRangeCount),
      contextMinSupportRatio |-> c.contextMinSupportRatio,
      drawRejectedCandidates |-> Normalised(c.drawRejectedCandidates) ]

\* thread t has returned from a ChromaRuntime_GetActiveConfig during which
\* the active configuration was the one a SetActiveConfig(c) installed
GotAfterSet(t, c) ==
    /\ threads[t].pc = "idle"
    /\ threads[t].op = "GetActiveConfig"
    /\ threads[t].status = CHROMA_STATUS_OK
    /\ ~threads[t].out.null
    /\ ~c.null
    /\ BuildConfigFromPointer(c, DefaultConstructedConfig).status = CHROMA_STATUS_OK
    /\ threads[t].seen = { BuildConfigFromPointer(c, DefaultConstructedConfig).cfg }

\* C29: after SetActiveConfig(c) returned OK and with no later Set or Reset,
\* GetActiveConfig returns a ChromaConfigV1 whose counts, first count hue
\* ranges and scalar fields are those of c, with requireContextRing and
\* drawRejectedCandidates as 0 or 1; SetActiveConfig of the returned value
\* succeeds and GetActiveConfig then returns the same value again
C29_GetReturnsWhatWasSet ==
    \A t \in Threads : \A c \in ConfigPointers :
        GotAfterSet(t, c) =>
            LET got == threads[t].out.at
                again == BuildConfigFromPointer(Ptr(got), DefaultConstructedConfig)
            IN  /\ ConfigFields(got) = ConfigFields(c.at)
                /\ got.requireContextRing \in {0, 1}
                /\ got.drawRejectedCandidates \in {0, 1}
                /\ again.status = CHROMA_STATUS_OK
                /\ again.cfg = BuildConfigFromPointer(c, DefaultConstructedConfig).cfg
                /\ ConvertPatternToApiConfig(again.cfg) = got

\* C29 witness: the value returned differs from the argument of the
\* SetActiveConfig, in its flags, its structSize and beyond its hue count
C29_Witness ==
    \E t \in Threads : \E c \in ConfigPointers :
        /\ GotAfterSet(t, c)
        /\ c.at.requireContextRing = 2
        /\ threads[t].out.at.requireContextRing = 1
        /\ threads[t].out.at.drawRejectedCandidates = 1
        /\ threads[t].out.at # c.at
        /\ threads[t].out.at.centerHueRanges[1] = HueRange(10, 20)
        /\ g_activeConfig = committed

---------------------------------------------------------------------------
(* Properties of CHROMA_STATUS_BUFFER_TOO_SMALL *)

\* outPoints is there and has room for some but not all of total points
PointBufferTooSmall(a, total) ==
    ~a.pointsNull /\ 0 < a.outCapacity /\ a.outCapacity < total

\* the pixel buffer of a ChromaDebugImageV1 is there and is smaller than
\* the debug image
DebugBufferTooSmall(outDebugImage) ==
    /\ ~outDebugImage.null
    /\ ~outDebugImage.at.bgraNull
    /\ 0 < outDebugImage.at.bgraCapacityBytes
    /\ outDebugImage.at.bgraCapacityBytes < outDebugImage.at.bytesRequired

C30_BothBuffersTooSmall ==
    /\ "LocateBitmapWithDebugBGRAW" \in Returns
    /\ LET debug == call.runs["LocateBitmapWithDebugBGRAW"]
       IN  /\ debug.status = CHROMA_STATUS_BUFFER_TOO_SMALL
           /\ DebugBufferTooSmall(debug.debug)
           /\ PointBufferTooSmall(debug.args, Len(DebugCentersOf(call.found)))

===========================================================================
